---- MODULE Spec2Model ----
(***************************************************************************)
(* A model of the relationship graph, the per-record cache and the fetch   *)
(* manager of ember-data:                                                  *)
(*   packages/record-data/addon/-private/record-data.ts                    *)
(*   packages/record-data/addon/-private/relationships/state/has-many.ts   *)
(*     (ManyRelationship and, in the same file, Graph)                     *)
(*   packages/store/addon/-private/network/fetch-manager.ts                *)
(***************************************************************************)
EXTENDS Integers, Sequences, FiniteSets, TLC

VARIABLES
  rd,      \* the record cache (a RecordDataDefault)
  rdLast,  \* the last call made on the record cache
  fm,      \* the fetch manager, its promises and the adapter calls it made
  fmLog,   \* the scheduleFetch calls made so far and what each returned
  graph,   \* the relationship graph (a Graph and its edges)
  gRun,    \* the coalesce pass that is running, and what it has yet to apply
  gLog     \* the calls made on the graph and what the running or last pass applied

cacheVars == <<rd, rdLast>>
fetchVars == <<fm, fmLog>>
graphVars == <<graph, gRun, gLog>>
vars == <<rd, rdLast, fm, fmLog, graph, gRun, gLog>>

(***************************************************************************)
(* Bounds and fixtures                                                     *)
(***************************************************************************)

\* number of distinct defined attribute values
NumVals == 2

ValNames == <<"a", "b", "c", "d">>

\* attribute values a backend payload can carry
Vals == {ValNames[i] : i \in 1..NumVals}

\* JavaScript's undefined, a value the user can assign to an attribute
Undef == "undefined"

\* not a value: the key is not an own property of the object
Absent == "absent"

\* the attribute names of the record's schema
Keys == {"name", "title"}

\* scheduleFetch calls made in one behaviour
MaxFetchCalls == 3

\* the identifiers records are fetched for, and their types
FetchIds == {"p1", "p2", "c1"}
TypeOf(identifier) ==
  CASE identifier \in {"p1", "p2"} -> "post"
    [] identifier \in {"c1", "c2"} -> "comment"
    [] OTHER -> "user"

\* options.include of a find request: absent, or a relationship path
Includes == {Undef, "comments"}

\* scheduleSave calls made in one behaviour
MaxSaves == 3

\* the identifiers records are saved for, and options[SaveOp]
SaveIds == {"p1", "c1"}
SaveOps == {"createRecord", "updateRecord", "deleteRecord"}

(***************************************************************************)
(* Record cache: RecordDataDefault                                         *)
(***************************************************************************)

EmptyObj == [k \in Keys |-> Absent]

\* obj[key] in JavaScript: undefined when the key is not present
Read(obj, k) == IF obj[k] = Absent THEN Undef ELSE obj[k]

\* key in obj
Has(obj, k) == obj[k] # Absent

ObjKeys(obj) == {k \in Keys : obj[k] # Absent}

\* Object.assign(target, source)
Assign(target, source) ==
  [k \in Keys |-> IF source[k] # Absent THEN source[k] ELSE target[k]]

\* the state after the constructor: reset() leaves the three buckets null
RdInit ==
  [ attributes |-> EmptyObj, attributesNull |-> TRUE,
    inFlight |-> EmptyObj, inFlightNull |-> TRUE,
    data |-> EmptyObj, dataNull |-> TRUE,
    isNew |-> FALSE, isDeleted |-> FALSE, hasErrors |-> FALSE,
    isDeletionCommitted |-> FALSE, isDestroyed |-> FALSE ]

\* the getters _attributes, _inFlightAttributes, _data create the object on
\* first access
TouchAttributes(r) == [r EXCEPT !.attributesNull = FALSE]
TouchInFlight(r) == [r EXCEPT !.inFlightNull = FALSE]
TouchData(r) == [r EXCEPT !.dataNull = FALSE]

\* the value getAttr(key) returns
GetAttrWrongOrder(r, k) ==
  IF Has(r.inFlight, k) THEN r.inFlight[k]
  ELSE IF Has(r.attributes, k) THEN r.attributes[k]
  ELSE Read(r.data, k)

GetAttr(r, k) ==
  IF Has(r.attributes, k) THEN r.attributes[k]
  ELSE IF Has(r.inFlight, k) THEN r.inFlight[k]
  ELSE Read(r.data, k)

\* the state getAttr(key) leaves: the getters it went through are created
GetAttrTouch(r, k) ==
  LET r1 == TouchAttributes(r)
      r2 == IF Has(r.attributes, k) THEN r1 ELSE TouchInFlight(r1)
  IN IF Has(r.attributes, k) \/ Has(r.inFlight, k) THEN r2 ELSE TouchData(r2)

hasChangedAttributes(r) == ~r.attributesNull /\ ObjKeys(r.attributes) # {}

\* _changedKeys(updates): updates = Absent everywhere stands for `undefined`
ChangedKeys(r, updates, given) ==
  IF ~given THEN {}
  ELSE LET original == Assign(r.data, r.inFlight)
       IN {k \in ObjKeys(updates) :
             /\ ~(hasChangedAttributes(r) /\ Read(r.attributes, k) # Undef)
             /\ Read(original, k) # updates[k]}

\* _updateChangedAttributes
UpdateChangedAttributes(r) ==
  LET merged == Assign(r.inFlight, r.attributes)
      stale == {k \in ObjKeys(merged) : Read(r.data, k) = merged[k]}
      r1 == TouchInFlight(TouchAttributes(TouchData(r)))
  IN [r1 EXCEPT !.attributes = [k \in Keys |-> IF k \in stale THEN Absent ELSE @[k]]]

\* pushData(data, calculateChange), attributes part
PushDataAttrs(r, payload) ==
  LET r1 == [r EXCEPT !.isNew = FALSE]
      r2 == [TouchData(r1) EXCEPT !.data = Assign(r1.data, payload)]
  IN IF ~r2.attributesNull THEN UpdateChangedAttributes(r2) ELSE r2

willCommit(r) ==
  [r EXCEPT !.inFlight = r.attributes, !.inFlightNull = FALSE,
            !.attributes = EmptyObj, !.attributesNull = TRUE]

\* commitWasRejected(identifier, errors)
commitWasRejected(r, withErrors) ==
  LET keys == ObjKeys(r.inFlight)
  IN [r EXCEPT
        !.attributes = [k \in Keys |->
                          IF k \in keys /\ Read(r.attributes, k) = Undef
                          THEN r.inFlight[k] ELSE @[k]],
        !.attributesNull = IF keys # {} THEN FALSE ELSE @,
        !.inFlight = EmptyObj, !.inFlightNull = TRUE,
        !.hasErrors = IF withErrors THEN TRUE ELSE @]

\* setDirtyAttribute(key, value) without the comparison with the original
\* value
setDirtyAttributeAlways(r, k, v) ==
  LET r1 == TouchInFlight(TouchAttributes(r))
      r2 == IF Has(r.inFlight, k) THEN r1 ELSE TouchData(r1)
  IN [r2 EXCEPT !.attributes[k] = v]

\* setDirtyAttribute(key, value)
setDirtyAttribute(r, k, v) ==
  LET r1 == TouchInFlight(TouchAttributes(r))
      inF == Has(r.inFlight, k)
      r2 == IF inF THEN r1 ELSE TouchData(r1)
      originalValue == IF inF THEN r.inFlight[k] ELSE Read(r.data, k)
  IN [r2 EXCEPT !.attributes[k] = IF v = originalValue THEN Absent ELSE v]

\* reset()
reset(r) ==
  [r EXCEPT !.attributes = EmptyObj, !.attributesNull = TRUE,
            !.inFlight = EmptyObj, !.inFlightNull = TRUE,
            !.data = EmptyObj, !.dataNull = TRUE,
            !.hasErrors = FALSE]

\* clientDidCreate()
clientDidCreate(r) == [r EXCEPT !.isNew = TRUE]

\* didCommit(data) that leaves the in-flight values out of the confirmed
\* bucket
didCommitDropsInFlight(r, given, payload) ==
  UpdateChangedAttributes(
    [TouchData(r) EXCEPT
       !.isDeletionCommitted = IF r.isDeleted THEN TRUE ELSE @,
       !.isNew = FALSE,
       !.data = IF given THEN Assign(r.data, payload) ELSE r.data,
       !.inFlight = EmptyObj, !.inFlightNull = TRUE,
       !.hasErrors = FALSE])

\* didCommit(data), what it does to the cache: given says whether data is
\* an object, payload is data.attributes
didCommit(r, given, payload) ==
  UpdateChangedAttributes(
    [TouchData(r) EXCEPT
       !.isDeletionCommitted = IF r.isDeleted THEN TRUE ELSE @,
       !.isNew = FALSE,
       !.data = IF given THEN Assign(Assign(r.data, r.inFlight), payload)
                ELSE Assign(r.data, r.inFlight),
       !.inFlight = EmptyObj, !.inFlightNull = TRUE,
       !.hasErrors = FALSE])

\* what rollbackAttributes() returns: an array, of the keys of
\* RolledBackKeys, or undefined when nothing is dirty
RolledBack(r) == IF hasChangedAttributes(r) THEN "array" ELSE Undef

RolledBackKeys(r) ==
  IF hasChangedAttributes(r) THEN ObjKeys(r.attributes) ELSE {}

\* rollbackAttributes() that keeps the dirty bucket
rollbackAttributesKeepsDirty(r) ==
  [r EXCEPT !.isDeleted = r.isNew,
            !.isNew = FALSE,
            !.inFlight = EmptyObj, !.inFlightNull = TRUE,
            !.hasErrors = FALSE]

\* rollbackAttributes(), what it does to the cache
rollbackAttributes(r) ==
  [r EXCEPT !.isDeleted = r.isNew,
            !.attributes = IF hasChangedAttributes(r) THEN EmptyObj ELSE @,
            !.attributesNull = IF hasChangedAttributes(r) THEN TRUE ELSE @,
            !.isNew = FALSE,
            !.inFlight = EmptyObj, !.inFlightNull = TRUE,
            !.hasErrors = FALSE]

(***************************************************************************)
(* Fetch manager: FetchManager                                             *)
(***************************************************************************)

PromiseIds == 1..MaxFetchCalls

\* no promise: what getPendingFetch returns when nothing matches
NoPromise == 0

\* the state after the constructor. A promise is "none" (not created),
\* "pending", "locked" (its resolver was resolved with the adapter's promise,
\* which has not settled), "resolved" or "rejected". flushScheduled counts
\* the flushAllPendingFetches callbacks waiting in the run loop; flushing,
\* processed and epoch say where a running flush is and how many have run.
\* what the handlers scheduleFetch attaches to a resolver's promise close
\* over and have done: isLoading, whether the record was unloaded while the
\* request was open, and whether the payload was pushed, the record unloaded
\* by the rejection handler, the error thrown on to the caller
NoRequest ==
  [identifier |-> Undef, isLoading |-> FALSE, late |-> FALSE,
   outcome |-> "none", unloaded |-> FALSE]

FmInit ==
  [ pending |-> <<>>,
    flushScheduled |-> 0,
    isDestroyed |-> FALSE,
    promises |-> [p \in PromiseIds |-> "none"],
    adapterCalls |-> <<>>,
    coalesce |-> FALSE,
    flushing |-> FALSE,
    processed |-> {},
    grouped |-> <<>>,
    epoch |-> 0,
    pendingSave |-> <<>>,
    savesScheduled |-> FALSE,
    flushingSaves |-> FALSE,
    toSave |-> <<>>,
    saveCalls |-> <<>>,
    saveLog |-> <<>>,
    saveEpoch |-> 0,
    store |-> [i \in FetchIds |-> "none"],
    storeDestroyed |-> FALSE,
    requests |-> [p \in PromiseIds |-> NoRequest] ]

\* store._instanceCache.recordIsLoaded(identifier)
recordIsLoaded(f, identifier) == f.store[identifier] = "loaded"

\* isSameRequest(options, reqOptions)
isSameRequest(include, reqInclude) == include = reqInclude

\* this._pendingFetch.get(type): the pending items of a type, in push order
PendingOfType(f, type) ==
  SelectSeq(f.pending, LAMBDA it : TypeOf(it.identifier) = type)

\* Array.prototype.find: the index of the first item the test accepts, or 0
FindFirst(items, Test(_)) ==
  IF \E i \in 1..Len(items) : Test(items[i])
  THEN CHOOSE i \in 1..Len(items) :
         Test(items[i]) /\ \A j \in 1..(i - 1) : ~Test(items[j])
  ELSE 0

\* getPendingFetch(identifier, options): the promise to reuse, or NoPromise
getPendingFetchNever(f, identifier, include) == NoPromise

getPendingFetch(f, identifier, include) ==
  LET pendingFetches == PendingOfType(f, TypeOf(identifier))
      m == FindFirst(pendingFetches, LAMBDA it : it.identifier = identifier)
  IN IF m # 0 /\ isSameRequest(include, pendingFetches[m].include)
     THEN pendingFetches[m].promise
     ELSE NoPromise

\* the promise scheduleFetch creates: RSVP.defer()
NewPromise(f) ==
  CHOOSE p \in PromiseIds :
    f.promises[p] = "none" /\ \A q \in 1..(p - 1) : f.promises[q] # "none"

\* scheduleFetch(identifier, options) when no pending fetch is reused
scheduleFetchNew(f, identifier, include) ==
  [f EXCEPT
     !.promises[NewPromise(f)] = "pending",
     !.requests[NewPromise(f)] =
        [NoRequest EXCEPT !.identifier = identifier,
                          !.isLoading = ~recordIsLoaded(f, identifier)],
     !.flushScheduled = IF Len(f.pending) = 0 THEN @ + 1 ELSE @,
     !.pending = Append(@, [identifier |-> identifier, include |-> include,
                            promise |-> NewPromise(f)])]

\* resolver.resolve(value) and resolver.reject(error): a promise settles once
Settle(promises, p, to) ==
  IF promises[p] = "pending" THEN [promises EXCEPT ![p] = to] ELSE promises

\* _fetchRecord(fetchItem): one findRecord call, whose promise the item's
\* resolver is resolved with
fetchRecord(f, item) ==
  [f EXCEPT
     !.adapterCalls = Append(@,
        [kind |-> "findRecord", ids |-> <<item.identifier>>,
         seeking |-> [i \in FetchIds |->
                        IF i = item.identifier THEN item.promise ELSE NoPromise],
         members |-> <<item.promise>>,
         drives |-> f.promises[item.promise] = "pending",
         epoch |-> f.epoch, answered |-> FALSE, found |-> {}]),
     !.promises = Settle(@, item.promise, "locked")]

\* the handlers of resolverPromise.then(...) in scheduleFetch, for promise p:
\* a payload is pushed into the store, which loads the record; an error
\* unloads a record that has no record data, or an empty one, or was not
\* loaded when the fetch was scheduled, and is thrown on
thenPush(f, p) ==
  [f EXCEPT !.store[f.requests[p].identifier] = "loaded",
            !.requests[p].outcome = "pushed"]

thenUnload(f, p) ==
  LET identifier == f.requests[p].identifier
      unloads == f.store[identifier] \in {"none", "empty"} \/ f.requests[p].isLoading
  IN [f EXCEPT !.store[identifier] = IF unloads THEN "none" ELSE @,
               !.requests[p].unloaded = unloads,
               !.requests[p].outcome = "thrown"]

\* the handlers of every promise that settled between f0 and f1
RECURSIVE RunHandlers(_, _, _)
RunHandlers(f0, f1, p) ==
  IF p \notin PromiseIds THEN f1
  ELSE RunHandlers(f0,
         IF f0.promises[p] = f1.promises[p] THEN f1
         ELSE IF f1.promises[p] = "resolved" THEN thenPush(f1, p)
         ELSE IF f1.promises[p] = "rejected" THEN thenUnload(f1, p)
         ELSE f1,
         p + 1)

\* guardDestroyedStore(promise, store, label): the callbacks of the guarded
\* promise run while the store is alive
guardDestroyedStore(f) == ~f.storeDestroyed

\* seeking[identifier.id] = pendingItem, for each item in order: a later item
\* of the same identifier replaces the earlier one
Seeking(items) ==
  [i \in FetchIds |->
     LET hits == {n \in 1..Len(items) : items[n].identifier = i}
     IN IF hits = {} THEN NoPromise
        ELSE items[CHOOSE n \in hits : \A o \in hits : o <= n].promise]

\* the item seeking[] holds for an identifier
SoughtItem(items, i) ==
  items[CHOOSE n \in 1..Len(items) :
          /\ items[n].identifier = i
          /\ \A o \in 1..Len(items) : items[o].identifier = i => o <= n]

\* for (i...) this._fetchRecord(pendingFetchItems[i])
RECURSIVE FetchEach(_, _)
FetchEach(f, items) ==
  IF items = <<>> THEN f
  ELSE FetchEach(fetchRecord(f, Head(items)), Tail(items))

\* _processCoalescedGroup that fetches every snapshot of a group on its own
processCoalescedGroupSingly(f, items, group) ==
  FetchEach(f, [n \in 1..Len(group) |-> items[group[n]]])

\* _processCoalescedGroup(seeking, group, ...): group holds indices of items;
\* members are the promises of the requests the group's snapshots were made of
processCoalescedGroup(f, items, group) ==
  IF Len(group) > 1
  THEN [f EXCEPT !.adapterCalls = Append(@,
          [kind |-> "findMany",
           ids |-> [n \in 1..Len(group) |-> items[group[n]].identifier],
           seeking |-> Seeking(items),
           members |-> [n \in 1..Len(group) |-> items[group[n]].promise],
           drives |-> TRUE, epoch |-> f.epoch, answered |-> FALSE,
           found |-> {}])]
  ELSE fetchRecord(f, SoughtItem(items, items[group[1]].identifier))

RECURSIVE ProcessGroups(_, _, _)
ProcessGroups(f, items, groups) ==
  IF groups = <<>> THEN f
  ELSE ProcessGroups(processCoalescedGroup(f, items, Head(groups)), items, Tail(groups))

\* adapter.groupRecordsForFindMany(store, snapshots): the groups an adapter
\* may return for n snapshots, each a list of indices; the default is one
\* group of all
GroupOf(label, g, n) ==
  LET idx == {i \in 1..n : label[i] = g}
      RECURSIVE Asc(_)
      Asc(S) == IF S = {} THEN <<>>
                ELSE LET m == CHOOSE x \in S : \A y \in S : x <= y
                     IN <<m>> \o Asc(S \ {m})
  IN Asc(idx)

Groupings(n) ==
  { SelectSeq([g \in 1..n |-> GroupOf(label, g, n)], LAMBDA grp : grp # <<>>) :
      label \in [1..n -> 1..n] }

\* _flushPendingFetchForType(pendingFetchItems, modelName)
flushPendingFetchForType(f, type, groups) ==
  LET items == PendingOfType(f, type)
  IN IF f.coalesce THEN ProcessGroups(f, items, groups)
     ELSE FetchEach(f, items)

\* the keys of the _pendingFetch Map in insertion order, less those done
TypesPending(f) ==
  {TypeOf(f.pending[n].identifier) : n \in 1..Len(f.pending)} \ f.processed

NextType(f) ==
  LET first(t) == CHOOSE n \in 1..Len(f.pending) :
                    /\ TypeOf(f.pending[n].identifier) = t
                    /\ \A o \in 1..(n - 1) : TypeOf(f.pending[o].identifier) # t
  IN CHOOSE t \in TypesPending(f) : \A u \in TypesPending(f) : first(t) <= first(u)

(***************************************************************************)
(* Actions of the fetch manager                                            *)
(***************************************************************************)

\* scheduleFetch(identifier, options), called from application code between
\* flushes, or from a synchronous adapter callback (groupRecordsForFindMany,
\* findMany) while a flush is processing a type
FmScheduleFetch ==
  /\ UNCHANGED <<cacheVars, graphVars>>
  /\ \E identifier \in FetchIds, include \in Includes :
    /\ Len(fmLog) < MaxFetchCalls
    /\ fm.flushing => (fm.coalesce /\ fm.processed # {})
    /\ LET found == getPendingFetch(fm, identifier, include)
           f2 == IF found # NoPromise THEN fm
                 ELSE scheduleFetchNew(fm, identifier, include)
           returned == IF found # NoPromise THEN found ELSE NewPromise(fm)
       IN /\ fm' = f2
          /\ fmLog' = Append(fmLog,
               [identifier |-> identifier, include |-> include,
                promise |-> returned, reused |-> found # NoPromise,
                epoch |-> fm.epoch, during |-> fm.flushing])

\* the run loop calls flushAllPendingFetches
FmFlushBegin ==
  /\ UNCHANGED <<cacheVars, graphVars>>
  /\ fm.flushScheduled > 0
  /\ ~fm.flushing
  /\ fm' = IF fm.isDestroyed
           THEN [fm EXCEPT !.flushScheduled = @ - 1]
           ELSE [fm EXCEPT !.flushScheduled = @ - 1, !.flushing = TRUE,
                           !.processed = {}, !.epoch = @ + 1]
  /\ UNCHANGED fmLog

\* this._pendingFetch.forEach(this._flushPendingFetchForType, this), one type;
\* grouped keeps the groups the adapter returned for it
FmFlushType ==
  /\ UNCHANGED <<cacheVars, graphVars>>
  /\ fm.flushing
  /\ TypesPending(fm) # {}
  /\ LET type == NextType(fm)
     IN \E groups \in Groupings(Len(PendingOfType(fm, type))) :
          fm' = [flushPendingFetchForType(fm, type, groups)
                   EXCEPT !.processed = @ \cup {type},
                          !.grouped = IF fm.coalesce THEN groups ELSE <<>>]
  /\ UNCHANGED fmLog

\* this._pendingFetch.clear()
FmFlushEnd ==
  /\ UNCHANGED <<cacheVars, graphVars>>
  /\ fm.flushing
  /\ TypesPending(fm) = {}
  /\ fm' = [fm EXCEPT !.pending = <<>>, !.flushing = FALSE, !.processed = {},
                       !.grouped = <<>>]
  /\ UNCHANGED fmLog

\* the adapter answers a findRecord call: its promise resolves or rejects
FmAnswerFindRecord ==
  /\ UNCHANGED <<cacheVars, graphVars>>
  /\ \E c \in 1..Len(fm.adapterCalls), ok \in BOOLEAN :
    LET call == fm.adapterCalls[c]
        p == call.seeking[call.ids[1]]
    IN /\ call.kind = "findRecord"
       /\ ~call.answered
       /\ fm' = RunHandlers(fm, [fm EXCEPT
            !.adapterCalls[c].answered = TRUE,
            !.adapterCalls[c].found = IF ok THEN {call.ids[1]} ELSE {},
            !.promises[p] =
               IF call.drives /\ @ = "locked" /\ guardDestroyedStore(fm)
               THEN (IF ok THEN "resolved" ELSE "rejected") ELSE @], 1)
       /\ UNCHANGED fmLog

\* handleFoundRecords(seeking, coalescedPayload, expectedSnapshots) followed
\* by rejectFetchedItems(seeking, missingSnapshots)
handleFoundRecords(f, call, found) ==
  LET idsOf == {call.ids[n] : n \in 1..Len(call.ids)}
      toResolve == {call.seeking[i] : i \in found} \ {NoPromise}
      toReject == {call.seeking[i] : i \in idsOf \ found} \ {NoPromise}
  IN [f EXCEPT !.promises =
        [p \in PromiseIds |->
           IF p \in toResolve /\ @[p] = "pending" THEN "resolved"
           ELSE IF p \in toReject /\ @[p] = "pending" THEN "rejected"
           ELSE @[p]]]

\* the adapter answers a findMany call with the records of some identifiers
\* of the type, or fails
FmAnswerFindMany ==
  /\ UNCHANGED <<cacheVars, graphVars>>
  /\ \E c \in 1..Len(fm.adapterCalls) :
    LET call == fm.adapterCalls[c]
        type == TypeOf(call.ids[1])
    IN /\ call.kind = "findMany"
       /\ ~call.answered
       /\ \E found \in SUBSET {i \in FetchIds : TypeOf(i) = type} :
            fm' = RunHandlers(fm,
                    [(IF guardDestroyedStore(fm)
                      THEN handleFoundRecords(fm, call, found) ELSE fm)
                       EXCEPT !.adapterCalls[c].answered = TRUE,
                              !.adapterCalls[c].found = found], 1)
       /\ UNCHANGED fmLog

\* destroy()
FmDestroy ==
  /\ UNCHANGED <<cacheVars, graphVars>>
  /\ ~fm.isDestroyed
  /\ ~fm.flushing
  /\ fm' = [fm EXCEPT !.isDestroyed = TRUE]
  /\ UNCHANGED fmLog

\* store.unloadRecord(record) by the application: the record of an identifier
\* is destroyed and its record data leaves the instance cache
StUnloadRecord ==
  /\ UNCHANGED <<cacheVars, graphVars, fmLog>>
  /\ ~fm.flushing
  /\ \E identifier \in FetchIds :
       /\ fm.store[identifier] # "none"
       /\ fm' = [fm EXCEPT
            !.store[identifier] = "none",
            !.requests = [p \in PromiseIds |->
               IF /\ @[p].identifier = identifier
                  /\ fm.promises[p] \in {"pending", "locked"}
               THEN [@[p] EXCEPT !.late = TRUE] ELSE @[p]]]

\* store.destroy() by the application
StDestroy ==
  /\ UNCHANGED <<cacheVars, graphVars, fmLog>>
  /\ ~fm.flushing
  /\ ~fm.storeDestroyed
  /\ fm' = [fm EXCEPT !.storeDestroyed = TRUE]

\* scheduleFetch calls made in one behaviour of the store
MaxStoreFetches == 2

\* scheduleFetch in a store whose records the application unloads
StScheduleFetch == FmScheduleFetch /\ Len(fmLog) < MaxStoreFetches

\* the fetch manager in a store whose records the application unloads
NextStore ==
  \/ StScheduleFetch
  \/ FmFlushBegin
  \/ FmFlushType
  \/ FmFlushEnd
  \/ FmAnswerFindRecord
  \/ FmAnswerFindMany
  \/ StUnloadRecord
  \/ StDestroy

NextFetch ==
  \/ FmScheduleFetch
  \/ FmFlushBegin
  \/ FmFlushType
  \/ FmFlushEnd
  \/ FmAnswerFindRecord
  \/ FmAnswerFindMany
  \/ FmDestroy

\* the adapter of a behaviour coalesces find requests or does not
InitFetch ==
  /\ \E co \in BOOLEAN : fm = [FmInit EXCEPT !.coalesce = co]
  /\ fmLog = <<>>

\* a store that holds no record data, empty record data or a loaded record for
\* each of two identifiers
InitStore ==
  /\ \E co \in BOOLEAN, st \in [{"p1", "c1"} -> {"none", "empty", "loaded"}] :
       fm = [FmInit EXCEPT !.coalesce = co,
                           !.store["p1"] = st["p1"], !.store["c1"] = st["c1"]]
  /\ fmLog = <<>>

(***************************************************************************)
(* Fetch manager: saves                                                    *)
(***************************************************************************)

\* scheduleSave(identifier, options): the item pushed on _pendingSave holds the
\* number of its resolver; scheduleOnce keeps one flush scheduled
scheduleSave(f, identifier, operation) ==
  [f EXCEPT
     !.pendingSave = Append(@, [identifier |-> identifier,
                                operation |-> operation,
                                resolver |-> Len(f.saveLog) + 1]),
     !.savesScheduled = TRUE,
     !.saveLog = Append(@, [identifier |-> identifier, operation |-> operation,
                            epoch |-> f.saveEpoch, during |-> f.flushingSaves])]

\* _flushPendingSaves that leaves the flushed items on _pendingSave
flushPendingSavesKeeping(f) ==
  [f EXCEPT !.toSave = f.pendingSave,
            !.savesScheduled = FALSE, !.flushingSaves = TRUE,
            !.saveEpoch = @ + 1]

\* _flushPendingSaves(), to the loop: pending = this._pendingSave.slice();
\* this._pendingSave = []
flushPendingSaves(f) ==
  [f EXCEPT !.toSave = f.pendingSave, !.pendingSave = <<>>,
            !.savesScheduled = FALSE, !.flushingSaves = TRUE,
            !.saveEpoch = @ + 1]

\* _flushPendingSave(pending): one call of adapter[operation] with the
\* snapshot of the item, whose promise the item's resolver is resolved with
flushPendingSave(f, pending) ==
  [f EXCEPT !.saveCalls = Append(@, [operation |-> pending.operation,
                                     identifier |-> pending.identifier,
                                     resolver |-> pending.resolver,
                                     epoch |-> f.saveEpoch])]

\* record.save() calls scheduleSave, from application code or from a hook the
\* store calls while a flush runs (adapterFor, serializerFor, modelFor)
FmScheduleSave ==
  /\ UNCHANGED <<cacheVars, graphVars, fmLog>>
  /\ Len(fm.saveLog) < MaxSaves
  /\ \E identifier \in SaveIds, operation \in SaveOps :
       fm' = scheduleSave(fm, identifier, operation)

\* the run loop calls _flushPendingSaves
FmFlushSavesBegin ==
  /\ UNCHANGED <<cacheVars, graphVars, fmLog>>
  /\ fm.savesScheduled
  /\ ~fm.flushingSaves
  /\ fm' = flushPendingSaves(fm)

\* one round of the loop of _flushPendingSaves
FmFlushSave ==
  /\ UNCHANGED <<cacheVars, graphVars, fmLog>>
  /\ fm.flushingSaves
  /\ fm.toSave # <<>>
  /\ fm' = [flushPendingSave(fm, Head(fm.toSave)) EXCEPT !.toSave = Tail(@)]

\* the loop of _flushPendingSaves ends
FmFlushSavesEnd ==
  /\ UNCHANGED <<cacheVars, graphVars, fmLog>>
  /\ fm.flushingSaves
  /\ fm.toSave = <<>>
  /\ fm' = [fm EXCEPT !.flushingSaves = FALSE]

NextSave ==
  \/ FmScheduleSave
  \/ FmFlushSavesBegin
  \/ FmFlushSave
  \/ FmFlushSavesEnd

(***************************************************************************)
(* Relationship graph: the schema                                          *)
(***************************************************************************)

\* a belongsTo that points at nothing
Null == "null"

\* the identifiers of the store: two posts, two comments and a user
Ids == {"p1", "p2", "c1", "c2", "u1"}

\* the relationship fields of the schema:
\*   post.comments  hasMany comment, inverse comment.post
\*   comment.post   belongsTo post, inverse post.comments
\*   user.fav       belongsTo post, no inverse declared; the graph keeps the
\*                  inverse on the post as the implicit edge favOf
FieldsOf(i) ==
  CASE TypeOf(i) = "post" -> {"comments", "favOf"}
    [] TypeOf(i) = "comment" -> {"post"}
    [] OTHER -> {"fav"}

\* the fields the schema declares (relationshipsDefinitionFor)
DeclaredFieldsOf(i) == FieldsOf(i) \ {"favOf"}

EdgeKeys == {<<i, f>> : i \in Ids, f \in {"comments", "favOf", "post", "fav"}}
              \cap {k \in Ids \X {"comments", "favOf", "post", "fav"} : k[2] \in FieldsOf(k[1])}

\* definition.kind
Kind(f) ==
  CASE f = "comments" -> "hasMany"
    [] f = "favOf" -> "implicit"
    [] OTHER -> "belongsTo"

\* definition.inverseKey
InverseKey(f) ==
  CASE f = "comments" -> "post"
    [] f = "post" -> "comments"
    [] f = "fav" -> "favOf"
    [] OTHER -> "fav"

\* definition.type: the type of the records the field holds
RelatedType(f) ==
  CASE f = "comments" -> "comment"
    [] f = "favOf" -> "user"
    [] OTHER -> "post"

isImplicit(f) == Kind(f) = "implicit"
isBelongsTo(f) == Kind(f) = "belongsTo"
isHasMany(f) == Kind(f) = "hasMany"

\* definition.isAsync, definition.inverseIsAsync and
\* definition.inverseIsImplicit; an implicit edge is never async
IsAsync(gr, f) == IF isImplicit(f) THEN FALSE ELSE gr.async[f]
InverseIsAsync(gr, f) == IsAsync(gr, InverseKey(f))
InverseIsImplicit(f) == isImplicit(InverseKey(f))

\* the records created on the client and not saved yet
NewIds == {"c2"}

\* the schemas: every relationship synchronous, or every one async
Schemas == {[f \in {"comments", "post", "fav"} |-> b] : b \in BOOLEAN}

\* isNew(identifier): the record exists on the client only
isNew(gr, i) == i \in gr.newIds

(***************************************************************************)
(* Relationship graph: edges                                               *)
(***************************************************************************)

\* an edge of any kind. A hasMany edge uses the two state arrays and the
\* two member sets, an implicit edge the member sets, a belongsTo edge
\* localState and remoteState.
NewEdge ==
  [ exists |-> TRUE,
    canonicalState |-> <<>>, currentState |-> <<>>,
    members |-> {}, canonicalMembers |-> {},
    localState |-> Null, remoteState |-> Null,
    hasReceivedData |-> FALSE, isEmpty |-> TRUE, isStale |-> FALSE,
    hasDematerializedInverse |-> FALSE,
    transactionRef |-> 0 ]

\* no edge: relationships[key] is undefined
NoEdge == [NewEdge EXCEPT !.exists = FALSE]

\* the state after the Graph constructor. async and newIds are the schema's
\* async flags and the store's unsaved records, fixed for a behaviour;
\* coalesceQueue and syncQueue count the callbacks the graph has waiting in
\* the run loop.
GraphInit ==
  [ nodes |-> {},
    edges |-> [k \in EdgeKeys |-> NoEdge],
    willSyncRemote |-> FALSE,
    willSyncLocal |-> FALSE,
    deletions |-> <<>>, hasMany |-> <<>>, belongsTo |-> <<>>,
    updatedRelationships |-> {},
    transactionOpen |-> FALSE, transaction |-> {},
    removing |-> Null,
    coalesceQueue |-> 0, syncQueue |-> 0,
    async |-> [f \in {"comments", "post", "fav"} |-> FALSE],
    newIds |-> NewIds,
    listening |-> FALSE, asked |-> <<>>, heard |-> <<>> ]

\* `const x = value; ...`: the value is computed once and the rest of the
\* function, Body, goes on with it
Let(value, Body(_)) == CHOOSE r \in {Body(x) : x \in {value}} : TRUE

Edge(gr, i, f) == gr.edges[<<i, f>>]

\* Array.prototype.indexOf and splice(index, 1)
IndexOf(seq, x) ==
  IF \E n \in 1..Len(seq) : seq[n] = x
  THEN CHOOSE n \in 1..Len(seq) : seq[n] = x /\ \A m \in 1..(n - 1) : seq[m] # x
  ELSE 0

Splice(seq, n) ==
  IF n = 0 THEN seq ELSE SubSeq(seq, 1, n - 1) \o SubSeq(seq, n + 1, Len(seq))

Range(seq) == {seq[n] : n \in 1..Len(seq)}

\* Graph.has(identifier, propertyName)
has(gr, i, f) == i \in gr.nodes /\ <<i, f>> \in EdgeKeys /\ Edge(gr, i, f).exists

\* Graph.get(identifier, propertyName): the graph with the edge created
get(gr, i, f) ==
  IF has(gr, i, f) THEN gr
  ELSE [gr EXCEPT !.nodes = @ \cup {i}, !.edges[<<i, f>>] = NewEdge]

\* delete relationships[key]: the edge object leaves the graph; what is
\* done to it afterwards cannot be observed
DeleteEdge(gr, i, f) ==
  [gr EXCEPT !.edges[<<i, f>>] = NoEdge,
             !.updatedRelationships = @ \ {<<i, f>>},
             !.transaction = @ \ {<<i, f>>}]

\* ManyRelationship.notifyHasManyChange(): a call of store.notifyHasManyChange
\* unless the identifier of the edge is the one under removal. The call
\* leaves the graph as it is; during a call of the graph that is listened to,
\* `asked` keeps the calls of notifyHasManyChange and `heard` the calls the
\* store got
notifyChange(gr, i, f) ==
  IF ~(gr.listening /\ isHasMany(f)) THEN gr
  ELSE IF i = gr.removing THEN [gr EXCEPT !.asked = Append(@, <<i, f>>)]
  ELSE [gr EXCEPT !.asked = Append(@, <<i, f>>), !.heard = Append(@, <<i, f>>)]

\* Graph._scheduleLocalSync(relationship); syncQueue counts the callbacks
\* waiting in the run loop's sync queue
scheduleLocalSync(gr, i, f) ==
  [gr EXCEPT !.updatedRelationships = @ \cup {<<i, f>>},
             !.willSyncLocal = TRUE,
             !.syncQueue = IF gr.willSyncLocal THEN @ ELSE @ + 1]

\* Graph._addToTransaction(relationship)
addToTransaction(gr, i, f) ==
  [gr EXCEPT !.edges[<<i, f>>].transactionRef = @ + 1,
             !.transaction = @ \cup {<<i, f>>}]

\* forAllMembers that goes through the canonical state first
forAllMembersCanonicalFirst(e) ==
  e.canonicalState \o SelectSeq(e.currentState, LAMBDA x : x \notin Range(e.canonicalState))

\* ManyRelationship.forAllMembers: the identifiers the callback gets, each
\* once, current state first
forAllMembers(e) ==
  LET cur == e.currentState
      can == SelectSeq(e.canonicalState, LAMBDA x : x \notin Range(cur))
      all == cur \o can
  IN SelectSeq([n \in 1..Len(all) |-> IF IndexOf(all, all[n]) = n THEN all[n] ELSE Null],
               LAMBDA x : x # Null)

\* ManyRelationship.getData() of an edge that has neither links nor meta: the
\* payload object, a function of its keys
getData(e) ==
  IF e.hasReceivedData THEN [key \in {"data"} |-> e.currentState]
  ELSE [key \in {} |-> <<>>]

\* clear() that also forgets that the edge received data
clearManyAndFlag(e) ==
  [e EXCEPT !.members = {}, !.canonicalMembers = {},
            !.currentState = <<>>, !.canonicalState = <<>>,
            !.hasReceivedData = FALSE]

\* clear() of a hasMany or implicit edge, and of a belongsTo edge
clearMany(e) ==
  [e EXCEPT !.members = {}, !.canonicalMembers = {},
            !.currentState = <<>>, !.canonicalState = <<>>]

clearBelongsTo(e) ==
  [e EXCEPT !.localState = Null, !.remoteState = Null,
            !.hasReceivedData = FALSE, !.isEmpty = TRUE]

clear(gr, i, f) ==
  [gr EXCEPT !.edges[<<i, f>>] =
     IF isBelongsTo(f) THEN clearBelongsTo(@) ELSE clearMany(@)]

\* removeCompletelyFromOwn that leaves the identifier in canonicalMembers
removeCompletelyFromOwnManyKeepsMember(gr, i, f, x) ==
  LET e == Edge(gr, i, f)
      canonicalIndex == IndexOf(e.canonicalState, x)
      currentIndex == IndexOf(e.currentState, x)
  IN Let([gr EXCEPT !.edges[<<i, f>>] =
            [e EXCEPT !.members = @ \ {x},
                      !.canonicalState = Splice(@, canonicalIndex),
                      !.currentState = Splice(@, currentIndex)]],
         LAMBDA g1 : IF currentIndex # 0 THEN notifyChange(g1, i, f) ELSE g1)

\* ManyRelationship.removeCompletelyFromOwn(identifier)
removeCompletelyFromOwnMany(gr, i, f, x) ==
  LET e == Edge(gr, i, f)
      canonicalIndex == IndexOf(e.canonicalState, x)
      currentIndex == IndexOf(e.currentState, x)
  IN Let([gr EXCEPT !.edges[<<i, f>>] =
            [e EXCEPT !.canonicalMembers = @ \ {x},
                      !.members = @ \ {x},
                      !.canonicalState = Splice(@, canonicalIndex),
                      !.currentState = Splice(@, currentIndex)]],
         LAMBDA g1 : IF currentIndex # 0 THEN notifyChange(g1, i, f) ELSE g1)

\* BelongsToRelationship.removeCompletelyFromOwn(identifier)
removeCompletelyFromOwnBelongsTo(gr, i, f, x) ==
  LET e == Edge(gr, i, f)
  IN Let([gr EXCEPT !.edges[<<i, f>>] =
            [e EXCEPT !.remoteState = IF @ = x THEN Null ELSE @,
                      !.localState = IF @ = x THEN Null ELSE @]],
         LAMBDA g1 : IF e.localState = x THEN notifyChange(g1, i, f) ELSE g1)

\* ImplicitRelationship.removeCompletelyFromOwn(identifier)
removeCompletelyFromOwnImplicit(gr, i, f, x) ==
  [gr EXCEPT !.edges[<<i, f>>].canonicalMembers = @ \ {x},
             !.edges[<<i, f>>].members = @ \ {x}]

removeCompletelyFromOwn(gr, i, f, x) ==
  CASE isHasMany(f) -> removeCompletelyFromOwnMany(gr, i, f, x)
    [] isBelongsTo(f) -> removeCompletelyFromOwnBelongsTo(gr, i, f, x)
    [] OTHER -> removeCompletelyFromOwnImplicit(gr, i, f, x)

\* a loop over a sequence: Op(gr, x) for each x in turn
Fold(gr, seq, Op(_, _)) ==
  Let(seq, LAMBDA s :
    LET F[n \in 0..Len(s)] ==
          IF n = 0 THEN gr ELSE Let(F[n - 1], LAMBDA acc : Op(acc, s[n]))
    IN F[Len(s)])

\* a loop over a Set; used where every x touches another edge, so that the
\* order of the loop cannot be observed
IdOrder == <<"p1", "p2", "c1", "c2", "u1">>

ForEach(gr, S, Op(_, _)) ==
  Fold(gr, SelectSeq(IdOrder, LAMBDA x : x \in S), Op)

\* the identifiers an edge refers to: members and canonicalMembers of a
\* hasMany or implicit edge, localState and remoteState of a belongsTo edge
Referred(e, f) ==
  IF isBelongsTo(f) THEN {e.localState, e.remoteState} \ {Null}
  ELSE e.members \cup e.canonicalMembers

\* removeCompletelyFromInverse(relationship), for the edge object e of
\* (i, f); attached says whether the object is still in the graph
removeCompletelyFromInverse(gr, i, f, e, attached) ==
  LET inverseKey == InverseKey(f)
      unload(g0, inverseIdentifier) ==
        IF has(g0, inverseIdentifier, inverseKey)
        THEN removeCompletelyFromOwn(g0, inverseIdentifier, inverseKey, i)
        ELSE g0
  IN Let(ForEach(gr, Referred(e, f), unload), LAMBDA g1 :
       IF ~attached THEN
         (IF isHasMany(f) /\ ~IsAsync(gr, f) THEN notifyChange(g1, i, f) ELSE g1)
       ELSE IF isBelongsTo(f) THEN
         [(IF ~IsAsync(gr, f) THEN clear(g1, i, f) ELSE g1)
            EXCEPT !.edges[<<i, f>>].localState = Null]
       ELSE IF isHasMany(f) THEN
         (IF ~IsAsync(gr, f) THEN notifyChange(clear(g1, i, f), i, f) ELSE g1)
       ELSE clear(g1, i, f))

\* Graph.isReleasable(identifier) that looks at no edge
isReleasableAlways(gr, i) == TRUE

\* Graph.isReleasable(identifier)
isReleasable(gr, i) ==
  \/ i \notin gr.nodes
  \/ \A f \in FieldsOf(i) : Edge(gr, i, f).exists => ~InverseIsAsync(gr, f)

(***************************************************************************)
(* Relationship graph: dematerialization, unload, remove                   *)
(***************************************************************************)

\* inverseDidDematerialize that removes the identifier from an async edge too
inverseDidDematerializeManyAlwaysRemoves(gr, i, f, x) ==
  notifyChange(removeCompletelyFromOwnMany(gr, i, f, x), i, f)

\* ManyRelationship.inverseDidDematerialize(inverseIdentifier)
inverseDidDematerializeMany(gr, i, f, x) ==
  notifyChange(IF ~IsAsync(gr, f) \/ isNew(gr, x)
               THEN removeCompletelyFromOwnMany(gr, i, f, x)
               ELSE [gr EXCEPT !.edges[<<i, f>>].hasDematerializedInverse = TRUE],
               i, f)

\* BelongsToRelationship.inverseDidDematerialize(inverseIdentifier)
inverseDidDematerializeBelongsTo(gr, i, f, x) ==
  LET e == Edge(gr, i, f)
  IN notifyChange(
       IF ~IsAsync(gr, f) \/ isNew(gr, x)
       THEN [gr EXCEPT !.edges[<<i, f>>] =
               [e EXCEPT !.localState = IF @ = x THEN Null ELSE @,
                         !.remoteState = IF @ = x THEN Null ELSE @,
                         !.isEmpty = IF e.remoteState = x THEN TRUE ELSE @,
                         !.hasReceivedData =
                            IF e.remoteState = x THEN TRUE ELSE @]]
       ELSE [gr EXCEPT !.edges[<<i, f>>].hasDematerializedInverse = TRUE],
       i, f)

inverseDidDematerialize(gr, i, f, x) ==
  IF isBelongsTo(f) THEN inverseDidDematerializeBelongsTo(gr, i, f, x)
  ELSE inverseDidDematerializeMany(gr, i, f, x)

\* a callback that tells no inverse edge anything
tellInverseNever(gr, i, f, inverseIdentifier) == gr

\* the callback of recordDataDidDematerialize: tells the inverse edge of
\* inverseIdentifier that i is gone, unless that edge is a belongsTo whose
\* local state is another record
tellInverse(gr, i, f, inverseIdentifier) ==
  LET inverseKey == InverseKey(f)
  IN IF ~has(gr, inverseIdentifier, inverseKey) THEN gr
     ELSE LET relationship == Edge(gr, inverseIdentifier, inverseKey)
          IN IF \/ Kind(inverseKey) # "belongsTo"
                \/ relationship.localState = Null
                \/ i = relationship.localState
             THEN inverseDidDematerialize(gr, inverseIdentifier, inverseKey, i)
             ELSE gr

\* ManyRelationship.recordDataDidDematerialize()
recordDataDidDematerializeMany(gr, i, f) ==
  IF InverseIsImplicit(f) THEN gr
  ELSE LET cb(g0, inverseIdentifier) == tellInverse(g0, i, f, inverseIdentifier)
       IN Fold(gr, forAllMembers(Edge(gr, i, f)), cb)

\* BelongsToRelationship.recordDataDidDematerialize()
recordDataDidDematerializeBelongsTo(gr, i, f) ==
  IF InverseIsImplicit(f) THEN gr
  ELSE LET e == Edge(gr, i, f)
           cb(g0, inverseIdentifier) == tellInverse(g0, i, f, inverseIdentifier)
           told == (IF e.remoteState # Null THEN <<e.remoteState>> ELSE <<>>)
                   \o (IF e.localState # Null /\ e.localState # e.remoteState
                       THEN <<e.localState>> ELSE <<>>)
       IN Fold(gr, told, cb)

recordDataDidDematerialize(gr, i, f) ==
  IF isBelongsTo(f) THEN recordDataDidDematerializeBelongsTo(gr, i, f)
  ELSE recordDataDidDematerializeMany(gr, i, f)

\* destroyRelationship(rel) without the clearing of the edge
destroyRelationshipNeverClears(gr, i, f) ==
  IF isImplicit(f) THEN
    (IF isReleasable(gr, i)
     THEN removeCompletelyFromInverse(gr, i, f, Edge(gr, i, f), TRUE)
     ELSE gr)
  ELSE recordDataDidDematerialize(gr, i, f)

\* destroyRelationship(rel)
destroyRelationship(gr, i, f) ==
  IF isImplicit(f) THEN
    (IF isReleasable(gr, i)
     THEN removeCompletelyFromInverse(gr, i, f, Edge(gr, i, f), TRUE)
     ELSE gr)
  ELSE
    Let(recordDataDidDematerialize(gr, i, f), LAMBDA g1 :
      IF ~InverseIsImplicit(f) /\ ~InverseIsAsync(gr, f)
      THEN Let(clear([g1 EXCEPT !.edges[<<i, f>>].isStale = TRUE], i, f),
               LAMBDA g2 : IF ~IsAsync(gr, f) THEN notifyChange(g2, i, f) ELSE g2)
      ELSE g1)

\* Object.keys(relationships): the edges of an identifier
FieldOrder == <<"comments", "favOf", "post", "fav">>

KeysOf(gr, i) == SelectSeq(FieldOrder, LAMBDA f : has(gr, i, f))

\* Graph.unload(identifier)
unload(gr, i) ==
  LET each(g0, key) ==
        Let(destroyRelationship(g0, i, key), LAMBDA g1 :
          IF isImplicit(key) THEN DeleteEdge(g1, i, key) ELSE g1)
  IN Fold(gr, KeysOf(gr, i), each)

\* this.identifiers.delete(identifier)
DeleteNode(gr, i) ==
  [gr EXCEPT !.nodes = @ \ {i},
             !.edges = [k \in EdgeKeys |-> IF k[1] = i THEN NoEdge ELSE @[k]],
             !.updatedRelationships = {k \in @ : k[1] # i},
             !.transaction = {k \in @ : k[1] # i}]

\* Graph.remove(identifier) up to the end of its unload
removeBegin(gr, i) == unload([gr EXCEPT !.removing = i], i)

\* Graph.remove(identifier) after its unload
removeEnd(gr) == [DeleteNode(gr, gr.removing) EXCEPT !.removing = Null]

\* Graph.remove(identifier): the assertion fails, and nothing is done, while
\* _removing is set
remove(gr, i) ==
  IF gr.removing # Null THEN gr ELSE removeEnd(removeBegin(gr, i))

\* the unload of i called the store for a hasMany edge of another
\* identifier: inverseDidDematerialize notifies the store whenever it is
\* called, and it was called for each such edge that changed
Notified(gr0, gr1, i) ==
  \E k \in EdgeKeys :
    k[1] # i /\ isHasMany(k[2]) /\ gr1.edges[k] # gr0.edges[k]

\* the deleteRecord case of Graph.update
deleteRecord(gr, i) ==
  LET each(g0, key) ==
        removeCompletelyFromInverse(DeleteEdge(g0, i, key), i, key,
                                    Edge(g0, i, key), FALSE)
  IN IF i \in gr.nodes THEN DeleteNode(Fold(gr, KeysOf(gr, i), each), i) ELSE gr

(***************************************************************************)
(* Relationship graph: operations                                          *)
(***************************************************************************)

\* removeFromInverse(graph, identifier, key, value, isRemote): the edge
\* (i, key) stops referring to value
removeFromInverse(gr, i, key, value, isRemote) ==
  Let(get(gr, i, key), LAMBDA g0 :
  Let(IF isRemote /\ ~isImplicit(key) THEN addToTransaction(g0, i, key) ELSE g0,
      LAMBDA g1 :
    CASE isBelongsTo(key) ->
           Let([g1 EXCEPT !.edges[<<i, key>>] =
                  [@ EXCEPT !.isEmpty = TRUE,
                            !.remoteState =
                               IF isRemote /\ @ = value THEN Null ELSE @,
                            !.localState = IF @ = value THEN Null ELSE @]],
               LAMBDA g2 : IF Edge(g1, i, key).localState = value
                           THEN notifyChange(g2, i, key) ELSE g2)
      [] isHasMany(key) ->
           notifyChange(
             [g1 EXCEPT !.edges[<<i, key>>] =
                [@ EXCEPT
                   !.canonicalMembers = IF isRemote THEN @ \ {value} ELSE @,
                   !.canonicalState =
                      IF isRemote THEN Splice(@, IndexOf(@, value)) ELSE @,
                   !.members = @ \ {value},
                   !.currentState = Splice(@, IndexOf(@, value))]], i, key)
      [] OTHER ->
           [g1 EXCEPT !.edges[<<i, key>>] =
              [@ EXCEPT !.canonicalMembers = IF isRemote THEN @ \ {value} ELSE @,
                        !.members = @ \ {value}]]))

\* addToInverse(graph, identifier, key, value, isRemote): the edge (i, key)
\* starts referring to value
addToInverse(gr, i, key, value, isRemote) ==
  Let(get(gr, i, key), LAMBDA g0 :
  LET e == Edge(g0, i, key)
      inverseKey == InverseKey(key)
  IN CASE isBelongsTo(key) ->
            Let(IF isRemote THEN addToTransaction(g0, i, key) ELSE g0, LAMBDA g1 :
            Let(IF isRemote /\ e.remoteState \notin {Null, value}
                THEN removeFromInverse(g1, e.remoteState, inverseKey, i, TRUE)
                ELSE g1, LAMBDA g2 :
            Let(IF e.localState \notin {Null, value}
                THEN removeFromInverse(g2, e.localState, inverseKey, i, FALSE)
                ELSE g2, LAMBDA g3 :
            Let([g3 EXCEPT !.edges[<<i, key>>] =
                   [@ EXCEPT !.isEmpty = FALSE,
                             !.hasReceivedData = TRUE,
                             !.remoteState = IF isRemote THEN value ELSE @,
                             !.localState = value]], LAMBDA g4 :
              IF e.localState # value THEN notifyChange(g4, i, key) ELSE g4))))
       [] isHasMany(key) ->
            IF isRemote THEN
              (IF value \in e.canonicalMembers THEN g0
               ELSE scheduleLocalSync(
                      [addToTransaction(g0, i, key) EXCEPT !.edges[<<i, key>>] =
                         [@ EXCEPT !.canonicalState = Append(@, value),
                                   !.canonicalMembers = @ \cup {value},
                                   !.hasReceivedData = TRUE]], i, key))
            ELSE
              (IF value \in e.members THEN g0
               ELSE notifyChange(
                      [g0 EXCEPT !.edges[<<i, key>>] =
                         [@ EXCEPT !.currentState = Append(@, value),
                                   !.members = @ \cup {value},
                                   !.hasReceivedData = TRUE]], i, key))
       [] OTHER ->
            [g0 EXCEPT !.edges[<<i, key>>] =
               [e EXCEPT !.canonicalMembers = IF isRemote THEN @ \cup {value} ELSE @,
                         !.members = @ \cup {value}]])

\* replaceRelatedRecord(graph, op, isRemote): a belongsTo edge gets the
\* value v, a record or Null
replaceRelatedRecord(gr, i, f, v, isRemote) ==
  Let(get(gr, i, f), LAMBDA g0 :
  Let(IF isRemote THEN addToTransaction(g0, i, f) ELSE g0, LAMBDA g1 :
  LET e == Edge(g1, i, f)
      inverseKey == InverseKey(f)
      existingState == IF isRemote THEN e.remoteState ELSE e.localState
      \* a remote update overrides the local value, unless that is a record
      \* which exists on the client only and the remote value is Null
      keepsLocal == isRemote /\ e.localState # Null /\ isNew(gr, e.localState)
                      /\ v = Null
  IN
  \* the old value stops referring to i
  Let(IF existingState \notin {Null, v}
      THEN removeFromInverse(g1, existingState, inverseKey, i, isRemote)
      ELSE g1, LAMBDA g2 :
  Let(IF isRemote /\ ~keepsLocal /\ e.localState \notin {Null, v}
      THEN removeFromInverse(g2, e.localState, inverseKey, i, FALSE)
      ELSE g2, LAMBDA g3 :
  Let([g3 EXCEPT !.edges[<<i, f>>] =
         [@ EXCEPT !.remoteState = IF isRemote THEN v ELSE @,
                   !.localState = IF keepsLocal THEN @ ELSE v,
                   !.hasReceivedData = TRUE,
                   !.isEmpty = (v = Null),
                   !.isStale = FALSE]], LAMBDA g4 :
  Let(IF v # Null THEN addToInverse(g4, v, inverseKey, i, isRemote) ELSE g4,
      LAMBDA g5 :
    IF e.localState # Edge(g5, i, f).localState
    THEN notifyChange(g5, i, f) ELSE g5))))))

\* replaceRelatedRecords(graph, op, true): a hasMany edge gets the canonical
\* state `value`, a sequence of records without duplicates
replaceRelatedRecordsRemote(gr, i, f, value) ==
  Let(addToTransaction(get(gr, i, f), i, f), LAMBDA g0 :
  LET e == Edge(g0, i, f)
      inverseKey == InverseKey(f)
      added == SelectSeq(value, LAMBDA x : x \notin e.canonicalMembers)
      removed == SelectSeq(e.canonicalState, LAMBDA x : x \notin Range(value))
      changed == e.canonicalState # value
      add(gx, x) == addToInverse(gx, x, inverseKey, i, TRUE)
      rem(gx, x) == removeFromInverse(gx, x, inverseKey, i, TRUE)
  IN
  Let([g0 EXCEPT !.edges[<<i, f>>] =
         [@ EXCEPT !.hasReceivedData = TRUE,
                   !.canonicalMembers = Range(value),
                   !.canonicalState = IF changed THEN value ELSE @]], LAMBDA g1 :
  Let(Fold(Fold(g1, added, add), removed, rem), LAMBDA g2 :
    IF changed THEN scheduleLocalSync(g2, i, f) ELSE g2)))

\* updateRelationship(graph, op), for a payload that has `data`
updateRelationship(gr, i, f, value) ==
     [(IF isHasMany(f) THEN replaceRelatedRecordsRemote(gr, i, f, value)
       ELSE replaceRelatedRecord(gr, i, f,
                                 IF value = <<>> THEN Null ELSE value[1], TRUE))
      EXCEPT !.edges[<<i, f>>] =
        [@ EXCEPT !.hasReceivedData = TRUE,
                  !.isStale = FALSE,
                  !.hasDematerializedInverse = FALSE,
                  !.isEmpty = (value = <<>>)]]

\* syncRemoteToLocal that keeps every record of the old current state
syncRemoteToLocalKeepingAll(gr, k) ==
  LET e == gr.edges[k]
      kept == SelectSeq(e.currentState, LAMBDA x : x \notin Range(e.canonicalState))
  IN [gr EXCEPT !.edges[k] =
        [e EXCEPT !.currentState = e.canonicalState \o kept,
                  !.members = Range(e.canonicalState \o kept)]]

\* syncRemoteToLocal(relationship): the current state of a hasMany edge
\* becomes its canonical state, followed by the records of the old current
\* state that exist on the client only
syncRemoteToLocal(gr, k) ==
  LET e == gr.edges[k]
      toSet == e.canonicalState
      newRecords == SelectSeq(e.currentState,
                              LAMBDA x : isNew(gr, x) /\ x \notin Range(toSet))
  IN Let([gr EXCEPT !.edges[k] =
            [e EXCEPT !.currentState = toSet \o newRecords,
                      !.members = Range(toSet \o newRecords)]], LAMBDA g1 :
       IF e.currentState # toSet \o newRecords
       THEN notifyChange(g1, k[1], k[2]) ELSE g1)

\* op.index of an operation that gives no index
NoIndex == -1

\* currentState.splice(index, 0, value), index counted from 0
InsertAt(seq, index, value) ==
  IF index >= Len(seq) THEN Append(seq, value)
  ELSE SubSeq(seq, 1, index) \o <<value>> \o SubSeq(seq, index + 1, Len(seq))

\* addRelatedRecord(graph, relationship, record, value, index, isRemote), a
\* local add: a record the edge holds is left alone
addRelatedRecord(gr, i, f, value, index) ==
  IF value \in Edge(gr, i, f).members THEN gr
  ELSE addToInverse(
         [gr EXCEPT !.edges[<<i, f>>] =
            [@ EXCEPT !.hasReceivedData = TRUE,
                      !.members = @ \cup {value},
                      !.currentState = IF index = NoIndex THEN Append(@, value)
                                       ELSE InsertAt(@, index, value)]],
         value, InverseKey(f), i, FALSE)

\* addToRelatedRecords that leaves the inverse edges alone
addToRelatedRecordsOneSided(gr, i, f, value, index) ==
  LET e == Edge(get(gr, i, f), i, f)
      added == SelectSeq(value, LAMBDA x : x \notin e.members)
  IN [get(gr, i, f) EXCEPT !.edges[<<i, f>>] =
        [@ EXCEPT !.hasReceivedData = TRUE,
                  !.members = @ \cup Range(added),
                  !.currentState = @ \o added]]

\* addToRelatedRecords(graph, op, false): the records of value are added to
\* the current state of a hasMany edge, at index + n or at its end
addToRelatedRecords(gr, i, f, value, index) ==
  LET each(g0, n) ==
        addRelatedRecord(g0, i, f, value[n],
                         IF index = NoIndex THEN NoIndex ELSE index + n - 1)
  IN notifyChange(Fold(get(gr, i, f), [n \in 1..Len(value) |-> n], each), i, f)

\* removeRelatedRecord(graph, relationship, record, value, isRemote), a local
\* remove: a record the edge does not hold is left alone
removeRelatedRecord(gr, i, f, value) ==
  IF value \notin Edge(gr, i, f).members THEN gr
  ELSE removeFromInverse(
         [gr EXCEPT !.edges[<<i, f>>] =
            [@ EXCEPT !.members = @ \ {value},
                      !.currentState = Splice(@, IndexOf(@, value))]],
         value, InverseKey(f), i, FALSE)

\* removeFromRelatedRecords(graph, op, false)
removeFromRelatedRecords(gr, i, f, value) ==
  LET each(g0, x) == removeRelatedRecord(g0, i, f, x)
  IN notifyChange(Fold(get(gr, i, f), value, each), i, f)

\* Graph.update(op, isRemote)
update(gr, op, isRemote) ==
  CASE op.op = "updateRelationship" ->
         updateRelationship(gr, op.record, op.field, op.value)
    [] op.op = "deleteRecord" -> deleteRecord(gr, op.record)
    [] op.op = "addToRelatedRecords" ->
         addToRelatedRecords(gr, op.record, op.field, op.value, op.index)
    [] op.op = "removeFromRelatedRecords" ->
         removeFromRelatedRecords(gr, op.record, op.field, op.value)
    [] OTHER ->
         replaceRelatedRecord(gr, op.record, op.field,
                              IF op.value = <<>> THEN Null ELSE op.value[1], isRemote)

\* Graph.push(op) that schedules a coalesce pass at every call
pushAlwaysSchedules(gr, op) ==
  Let(CASE op.op = "deleteRecord" -> [gr EXCEPT !.deletions = Append(@, op)]
        [] op.op = "replaceRelatedRecord" ->
             [gr EXCEPT !.belongsTo = Append(@, op)]
        [] OTHER ->
             IF isHasMany(op.field)
             THEN [get(gr, op.record, op.field) EXCEPT !.hasMany = Append(@, op)]
             ELSE [get(gr, op.record, op.field) EXCEPT !.belongsTo = Append(@, op)],
      LAMBDA g1 :
        [g1 EXCEPT !.willSyncRemote = TRUE, !.coalesceQueue = @ + 1])

\* Graph.push(op)
push(gr, op) ==
  Let(CASE op.op = "deleteRecord" -> [gr EXCEPT !.deletions = Append(@, op)]
        [] op.op = "replaceRelatedRecord" ->
             [gr EXCEPT !.belongsTo = Append(@, op)]
        [] OTHER ->
             IF isHasMany(op.field)
             THEN [get(gr, op.record, op.field) EXCEPT !.hasMany = Append(@, op)]
             ELSE [get(gr, op.record, op.field) EXCEPT !.belongsTo = Append(@, op)],
      LAMBDA g1 :
        IF ~g1.willSyncRemote
        THEN [g1 EXCEPT !.willSyncRemote = TRUE, !.coalesceQueue = @ + 1]
        ELSE g1)

\* the three loops of Graph._flushRemoteQueue, in a wrong order
DetachedHasManyFirst(gr) == gr.hasMany \o gr.deletions \o gr.belongsTo

\* the operations the three loops of Graph._flushRemoteQueue go through
Detached(gr) == gr.deletions \o gr.hasMany \o gr.belongsTo

\* Graph._flushRemoteQueue up to its loops, with _willSyncRemote left set
flushRemoteQueueBeginKeepsFlag(gr) ==
  [gr EXCEPT !.transactionOpen = TRUE, !.transaction = {},
             !.deletions = <<>>, !.hasMany = <<>>, !.belongsTo = <<>>]

\* Graph._flushRemoteQueue up to its loops
flushRemoteQueueBegin(gr) ==
  [gr EXCEPT !.transactionOpen = TRUE, !.transaction = {},
             !.willSyncRemote = FALSE,
             !.deletions = <<>>, !.hasMany = <<>>, !.belongsTo = <<>>]

\* Graph._finalize()
finalize(gr) ==
  IF gr.transactionOpen
  THEN [gr EXCEPT !.edges = [k \in EdgeKeys |->
                               IF k \in gr.transaction
                               THEN [@[k] EXCEPT !.transactionRef = 0] ELSE @[k]],
                  !.transactionOpen = FALSE, !.transaction = {}]
  ELSE gr

\* the edges in the order a Set of them is gone through
EdgeOrder ==
  SelectSeq([n \in 1..(Len(IdOrder) * Len(FieldOrder)) |->
               <<IdOrder[((n - 1) \div Len(FieldOrder)) + 1],
                 FieldOrder[((n - 1) % Len(FieldOrder)) + 1]>>],
            LAMBDA k : k \in EdgeKeys)

\* Graph._flushLocalQueue()
flushLocalQueue(gr) ==
  IF ~gr.willSyncLocal THEN gr
  ELSE Fold([gr EXCEPT !.willSyncLocal = FALSE, !.updatedRelationships = {}],
            SelectSeq(EdgeOrder, LAMBDA k : k \in gr.updatedRelationships),
            syncRemoteToLocal)

(***************************************************************************)
(* Actions of the relationship graph                                       *)
(***************************************************************************)

\* calls made on the graph in one behaviour, and how many of them can be
\* pushes, local updates, and unloads or removes
MaxGraphCalls == 4
MaxPushes == 3
MaxLocals == 1
MaxUnloads == 1

Operation(op, i, f, value) == [op |-> op, record |-> i, field |-> f, value |-> value]

\* the operations the record caches push to the graph: the deletion of a
\* record, the comments of a post and the post of a comment from a payload,
\* and the replacement of a user's favourite
RemoteOps ==
  {Operation("deleteRecord", i, "none", <<>>) : i \in {"p1", "c1", "u1"}}
  \cup {Operation("updateRelationship", "p1", "comments", v) : v \in {<<>>, <<"c1">>}}
  \cup {Operation("updateRelationship", "c1", "post", v) :
          v \in {<<>>, <<"p1">>, <<"p2">>}}
  \cup {Operation("replaceRelatedRecord", "u1", "fav", v) : v \in {<<>>, <<"p1">>}}

\* the changes the application makes to a belongsTo of a record
LocalOps ==
  {Operation("replaceRelatedRecord", "c1", "post", v) :
     v \in {<<>>, <<"p1">>, <<"p2">>}}
  \cup {Operation("replaceRelatedRecord", "c2", "post", <<"p1">>)}
  \cup {Operation("replaceRelatedRecord", "u1", "fav", v) : v \in {<<>>, <<"p1">>}}

\* an operation in a buffer, with its place in the order of the pushes since
\* the buffers were last detached, the parity of the pass that will detach
\* it, and whether it was pushed while a pass was running
Tag(op, n, batch, during) ==
  [op |-> op.op, record |-> op.record, field |-> op.field, value |-> op.value,
   seq |-> n, batch |-> batch, during |-> during]

NoBefore == [nodes |-> {}, edges |-> [k \in EdgeKeys |-> NoEdge]]

\* the last call: its name, the identifier it was made for, the graph before
\* it (for unload and remove), the declared edges it took out of the graph
\* and, for isReleasable, what it returned
LastCall(op, i, before, gr0, gr1) ==
  [op |-> op, id |-> i, before |-> before, ret |-> FALSE, value |-> <<>>,
   gone |-> {k \in EdgeKeys : /\ ~isImplicit(k[2])
                              /\ has(gr0, k[1], k[2]) /\ ~has(gr1, k[1], k[2])}]

GraphCalls == gLog.pushes + gLog.locals + gLog.unloads

\* Graph.push(op) by a record cache; while a pass runs, by a callback the
\* store runs for a notification of that pass
GPush ==
  /\ UNCHANGED <<cacheVars, fetchVars>>
  /\ GraphCalls < MaxGraphCalls
  /\ gLog.pushes < MaxPushes
  /\ gRun.running => gLog.applied # <<>>
  /\ ~gRun.inRemove
  /\ \E op \in RemoteOps :
       LET tagged == Tag(op, Len(gLog.pending) + 1, gLog.batch, gRun.running)
       IN \E g1 \in {push(graph, tagged)} :
          /\ graph' = g1
          /\ gLog' = [gLog EXCEPT !.pushes = @ + 1,
                                  !.pending = Append(@, tagged),
                                  !.last = LastCall("push", op.record, NoBefore, graph, g1)]
  /\ UNCHANGED gRun

\* Graph.update(op) for a change the application makes
GUpdateLocal ==
  /\ UNCHANGED <<cacheVars, fetchVars>>
  /\ GraphCalls < MaxGraphCalls
  /\ gLog.locals < MaxLocals
  /\ ~gRun.running
  /\ \E op \in LocalOps :
       \E g1 \in {update(graph, op, FALSE)} :
          /\ graph' = g1
          /\ gLog' = [gLog EXCEPT !.locals = @ + 1,
                                  !.last = LastCall("update", op.record, NoBefore, graph, g1)]
  /\ UNCHANGED gRun

\* Graph.unload(identifier)
GUnload ==
  /\ UNCHANGED <<cacheVars, fetchVars>>
  /\ GraphCalls < MaxGraphCalls
  /\ gLog.unloads < MaxUnloads
  /\ ~gRun.running /\ ~gRun.inRemove
  /\ \E i \in graph.nodes :
       \E g1 \in {unload(graph, i)} :
          /\ graph' = g1
          /\ gLog' = [gLog EXCEPT !.unloads = @ + 1,
                                  !.last = LastCall("unload", i,
                                                    [nodes |-> graph.nodes, edges |-> graph.edges],
                                                    graph, g1)]
  /\ UNCHANGED gRun

\* Graph.remove(identifier), when no call of the store made by its unload
\* calls the graph
GRemove ==
  /\ UNCHANGED <<cacheVars, fetchVars>>
  /\ GraphCalls < MaxGraphCalls
  /\ gLog.unloads < MaxUnloads
  /\ ~gRun.running /\ ~gRun.inRemove
  /\ \E i \in graph.nodes :
       \E g1 \in {remove(graph, i)} :
          /\ graph' = g1
          /\ gLog' = [gLog EXCEPT !.unloads = @ + 1,
                                  !.last = LastCall(IF graph.removing # Null
                                                    THEN "removeFailed" ELSE "remove", i,
                                                    [nodes |-> graph.nodes, edges |-> graph.edges],
                                                    graph, g1)]
  /\ UNCHANGED gRun

\* Graph.remove(identifier) up to a call of the store that its unload makes
\* for a hasMany edge of another identifier
GRemoveBegin ==
  /\ UNCHANGED <<cacheVars, fetchVars>>
  /\ GraphCalls < MaxGraphCalls
  /\ gLog.unloads < MaxUnloads
  /\ ~gRun.running /\ ~gRun.inRemove
  /\ graph.removing = Null
  /\ \E i \in graph.nodes :
       \E g1 \in {removeBegin(graph, i)} :
          /\ Notified(graph, g1, i)
          /\ graph' = g1
          /\ gRun' = [gRun EXCEPT !.inRemove = TRUE]
          /\ gLog' = [gLog EXCEPT !.unloads = @ + 1,
                                  !.last = LastCall("removeBegin", i,
                                                    [nodes |-> graph.nodes, edges |-> graph.edges],
                                                    graph, g1)]

\* the store, called by the unload of a remove, calls Graph.remove: the
\* assertion fails, and the error is caught by the caller, or goes up
\* through the remove that is under way and ends it
GRemoveNested ==
  /\ UNCHANGED <<cacheVars, fetchVars>>
  /\ gRun.inRemove
  /\ \E j \in graph.nodes, caught \in BOOLEAN :
       \E g1 \in {remove(graph, j)} :
          /\ graph' = g1
          /\ gRun' = [gRun EXCEPT !.inRemove = caught]
          /\ gLog' = [gLog EXCEPT
                        !.last = LastCall("removeFailed", j, NoBefore, graph, g1)]

\* the rest of the Graph.remove that is under way
GRemoveEnd ==
  /\ UNCHANGED <<cacheVars, fetchVars>>
  /\ gRun.inRemove
  /\ \E g1 \in {removeEnd(graph)} :
       /\ graph' = g1
       /\ gRun' = [gRun EXCEPT !.inRemove = FALSE]
       /\ gLog' = [gLog EXCEPT
                     !.last = LastCall("remove", graph.removing, NoBefore, graph, g1)]

\* Graph.isReleasable(identifier), asked while no pass runs and no operation
\* waits for one
GIsReleasable ==
  /\ UNCHANGED <<cacheVars, fetchVars, graph, gRun>>
  /\ ~gRun.running /\ gLog.pending = <<>>
  /\ \E i \in Ids :
       gLog' = [gLog EXCEPT
                  !.last = [LastCall("isReleasable", i, NoBefore, graph, graph)
                              EXCEPT !.ret = isReleasable(graph, i)]]

\* the run loop calls Graph._flushRemoteQueue: the buffers are detached
GFlushRemoteBegin ==
  /\ UNCHANGED <<cacheVars, fetchVars>>
  /\ ~gRun.running /\ ~gRun.inRemove
  /\ graph.coalesceQueue > 0
  /\ LET g0 == [graph EXCEPT !.coalesceQueue = @ - 1]
     IN IF ~graph.willSyncRemote
        THEN /\ graph' = g0
             /\ UNCHANGED gRun
             /\ gLog' = [gLog EXCEPT !.last = LastCall("flushRemote", Null, NoBefore, graph, g0)]
        ELSE /\ graph' = flushRemoteQueueBegin(g0)
             /\ gRun' = [gRun EXCEPT !.running = TRUE, !.queue = Detached(graph)]
             /\ gLog' = [gLog EXCEPT !.pending = <<>>, !.taken = gLog.pending,
                                     !.applied = <<>>, !.batch = 1 - @,
                                     !.last = LastCall("flushRemote", Null, NoBefore, graph, graph)]

\* one turn of the loops of Graph._flushRemoteQueue
GFlushRemoteStep ==
  /\ UNCHANGED <<cacheVars, fetchVars>>
  /\ gRun.running
  /\ gRun.queue # <<>>
  /\ \E op \in {Head(gRun.queue)}, g1 \in {update(graph, Head(gRun.queue), TRUE)} :
        /\ graph' = g1
        /\ gRun' = [gRun EXCEPT !.queue = Tail(@)]
        /\ gLog' = [gLog EXCEPT !.applied = Append(@, op),
                                !.last = LastCall(op.op, op.record, NoBefore, graph, g1)]

\* the end of Graph._flushRemoteQueue
GFlushRemoteEnd ==
  /\ UNCHANGED <<cacheVars, fetchVars>>
  /\ gRun.running
  /\ gRun.queue = <<>>
  /\ graph' = finalize(graph)
  /\ gRun' = [gRun EXCEPT !.running = FALSE]
  /\ gLog' = [gLog EXCEPT !.last = LastCall("finalize", Null, NoBefore, graph, graph)]

\* addToHasMany and removeFromHasMany calls made in one behaviour
MaxManyCalls == 3

\* the comments the application adds to and removes from a post, and the
\* index it adds them at
ManyValues == {<<"c1">>, <<"c2">>, <<"c1", "c2">>, <<"c2", "c1">>}
ManyOps ==
  {[op |-> "addToRelatedRecords", record |-> i, field |-> "comments",
    value |-> v, index |-> n] :
     i \in {"p1", "p2"}, v \in ManyValues, n \in {NoIndex, 0, 1}}
  \cup {[op |-> "removeFromRelatedRecords", record |-> i, field |-> "comments",
          value |-> v, index |-> NoIndex] :
           i \in {"p1", "p2"}, v \in ManyValues}

\* RecordDataDefault.addToHasMany and removeFromHasMany: Graph.update(op)
GUpdateMany ==
  /\ UNCHANGED <<cacheVars, fetchVars>>
  /\ gLog.manys < MaxManyCalls
  /\ ~gRun.running
  /\ \E op \in ManyOps :
       \E g1 \in {update(graph, op, FALSE)} :
          /\ graph' = g1
          /\ gLog' = [gLog EXCEPT
               !.manys = @ + 1,
               !.last = [LastCall(op.op, op.record, NoBefore, graph, g1)
                           EXCEPT !.value = op.value]]
  /\ UNCHANGED gRun

\* the changes the application makes to the relationships of its records
NextLocal ==
  \/ GUpdateMany
  \/ GUpdateLocal

\* the run loop calls Graph._flushLocalQueue, once its coalesce queue is empty
GFlushLocal ==
  /\ UNCHANGED <<cacheVars, fetchVars>>
  /\ ~gRun.running
  /\ graph.coalesceQueue = 0
  /\ graph.syncQueue > 0
  /\ \E g1 \in {flushLocalQueue([graph EXCEPT !.syncQueue = @ - 1])} :
        /\ graph' = g1
        /\ gLog' = [gLog EXCEPT !.last = LastCall("flushLocal", Null, NoBefore, graph, g1)]
  /\ UNCHANGED gRun

\* addToHasMany and removeFromHasMany calls made next to pushes, and the pushes
MaxSyncManys == 2
MaxSyncPushes == 2

\* Graph.push(op) by a record cache, between local changes
GPushSync == GPush /\ gLog.pushes < MaxSyncPushes

\* addToHasMany and removeFromHasMany between the passes of the graph
GUpdateManySync == GUpdateMany /\ gLog.manys < MaxSyncManys

\* local changes of a hasMany edge, the payloads that change its canonical
\* state, and the passes of the graph
\* pushes made in one behaviour next to a push for an implicit relationship
MaxTxnPushes == 3

\* a replaceRelatedRecord pushed for the implicit inverse of user.fav: push
\* puts it into the belongsTo buffer without looking at the relationship
ImplicitOps == {Operation("replaceRelatedRecord", "p1", "favOf", <<"u1">>)}

\* the first assertion of Graph.update fails for the operation
updateAsserts(op) == op.op # "deleteRecord" /\ isImplicit(op.field)

\* Graph.push(op) by a record cache, for a declared or an implicit relationship
GPushAny ==
  /\ UNCHANGED <<cacheVars, fetchVars>>
  /\ gLog.pushes < MaxTxnPushes
  /\ gRun.running => gLog.applied # <<>>
  /\ \E op \in RemoteOps \cup ImplicitOps :
       LET tagged == Tag(op, Len(gLog.pending) + 1, gLog.batch, gRun.running)
       IN \E g1 \in {push(graph, tagged)} :
          /\ graph' = g1
          /\ gLog' = [gLog EXCEPT !.pushes = @ + 1,
                                  !.pending = Append(@, tagged),
                                  !.last = LastCall("push", op.record, NoBefore, graph, g1)]
  /\ UNCHANGED gRun

\* one turn of the loops of Graph._flushRemoteQueue whose update returns
GFlushRemoteStepDone ==
  /\ gRun.running
  /\ gRun.queue # <<>>
  /\ ~updateAsserts(Head(gRun.queue))
  /\ GFlushRemoteStep

\* one turn of the loops of Graph._flushRemoteQueue whose update throws: the
\* error leaves _flushRemoteQueue, and the operations after it in the detached
\* buffers are dropped with it
GFlushRemoteStepThrows ==
  /\ UNCHANGED <<cacheVars, fetchVars>>
  /\ gRun.running
  /\ gRun.queue # <<>>
  /\ updateAsserts(Head(gRun.queue))
  /\ \E op \in {Head(gRun.queue)} :
       \E g1 \in {get(graph, op.record, op.field)} :
          /\ graph' = g1
          /\ gRun' = [gRun EXCEPT !.running = FALSE, !.queue = <<>>]
          /\ gLog' = [gLog EXCEPT
                        !.last = LastCall("flushFailed", op.record, NoBefore, graph, g1)]

\* Graph._flushRemoteQueue(), from its first line to its last
flushRemoteQueue(gr) ==
  IF ~gr.willSyncRemote THEN gr
  ELSE finalize(Fold(flushRemoteQueueBegin(gr), Detached(gr),
                     LAMBDA g0, op : update(g0, op, TRUE)))

\* the update of the operation calls Graph._addToTransaction
addsToTransaction(gr, op) ==
  \E k \in EdgeKeys :
     update(gr, op, TRUE).edges[k].transactionRef > gr.edges[k].transactionRef

\* a callback the store runs for a notification of a pass opens a run loop
\* of its own around its push, and that run loop calls _flushRemoteQueue
\* before the pass goes on
GFlushRemoteWithin ==
  /\ UNCHANGED <<cacheVars, fetchVars, gRun>>
  /\ gRun.running
  /\ graph.willSyncRemote
  /\ graph.coalesceQueue > 0
  /\ \E g1 \in {flushRemoteQueue([graph EXCEPT !.coalesceQueue = @ - 1])} :
        /\ graph' = g1
        /\ gLog' = [gLog EXCEPT !.pending = <<>>,
                                !.last = LastCall("flushWithin", Null,
                                                  [nodes |-> graph.nodes, edges |-> graph.edges],
                                                  graph, g1)]

\* one turn of the loops of Graph._flushRemoteQueue that finds the
\* transaction it needs
GFlushRemoteStepOpen ==
  /\ gRun.running
  /\ gRun.queue # <<>>
  /\ graph.transactionOpen \/ ~addsToTransaction(graph, Head(gRun.queue))
  /\ GFlushRemoteStep

\* one turn of the loops of Graph._flushRemoteQueue after the transaction was
\* closed under the pass: Graph._addToTransaction throws, and the pass ends
GFlushRemoteStepClosed ==
  /\ UNCHANGED <<cacheVars, fetchVars, graph>>
  /\ gRun.running
  /\ gRun.queue # <<>>
  /\ ~graph.transactionOpen
  /\ addsToTransaction(graph, Head(gRun.queue))
  /\ gRun' = [gRun EXCEPT !.running = FALSE, !.queue = <<>>]
  /\ gLog' = [gLog EXCEPT
                !.last = LastCall("flushFailed", Head(gRun.queue).record, NoBefore,
                                  graph, graph)]

NextWithin ==
  \/ GPush
  \/ GFlushRemoteBegin
  \/ GFlushRemoteStepOpen
  \/ GFlushRemoteStepClosed
  \/ GFlushRemoteWithin
  \/ GFlushRemoteEnd

\* pushes, and unloads and removes, made in one behaviour in which the calls of
\* store.notifyHasManyChange are listened to
MaxHeardPushes == 2
MaxHeardUnloads == 2

\* the store starts to keep the calls it gets, and stops
Listen(gr) == [gr EXCEPT !.listening = TRUE, !.asked = <<>>, !.heard = <<>>]
Unlisten(gr) == [gr EXCEPT !.listening = FALSE]

\* Graph.push(op) by a record cache, before the unloads
GPushHeard == GPush /\ gLog.pushes < MaxHeardPushes

\* Graph.unload(identifier), listened to
GUnloadHeard ==
  /\ UNCHANGED <<cacheVars, fetchVars>>
  /\ gLog.unloads < MaxHeardUnloads
  /\ ~gRun.running /\ ~gRun.inRemove
  /\ \E i \in graph.nodes :
       \E g1 \in {Unlisten(unload(Listen(graph), i))} :
          /\ graph' = g1
          /\ gLog' = [gLog EXCEPT !.unloads = @ + 1,
                                  !.last = LastCall("unload", i,
                                                    [nodes |-> graph.nodes, edges |-> graph.edges],
                                                    graph, g1)]
  /\ UNCHANGED gRun

\* Graph.remove(identifier), listened to, when no call of the store made by
\* its unload calls the graph
GRemoveHeard ==
  /\ UNCHANGED <<cacheVars, fetchVars>>
  /\ gLog.unloads < MaxHeardUnloads
  /\ ~gRun.running /\ ~gRun.inRemove
  /\ \E i \in graph.nodes :
       \E g1 \in {Unlisten(remove(Listen(graph), i))} :
          /\ graph' = g1
          /\ gLog' = [gLog EXCEPT !.unloads = @ + 1,
                                  !.last = LastCall(IF graph.removing # Null
                                                    THEN "removeFailed" ELSE "remove", i,
                                                    [nodes |-> graph.nodes, edges |-> graph.edges],
                                                    graph, g1)]
  /\ UNCHANGED gRun

\* the unload of i called the store for a belongsTo edge of another
\* identifier: inverseDidDematerialize notifies the store whenever it is
\* called, and it was called for each such edge that changed
NotifiedBelongsTo(gr0, gr1, i) ==
  \E k \in EdgeKeys :
    k[1] # i /\ isBelongsTo(k[2]) /\ gr1.edges[k] # gr0.edges[k]

\* Graph.remove(identifier) up to a call of the store that its unload makes
\* for a belongsTo edge of another identifier
GRemoveBeginBelongsTo ==
  /\ UNCHANGED <<cacheVars, fetchVars>>
  /\ gLog.unloads < MaxUnloads
  /\ ~gRun.running /\ ~gRun.inRemove
  /\ graph.removing = Null
  /\ \E i \in graph.nodes :
       \E g1 \in {removeBegin(graph, i)} :
          /\ NotifiedBelongsTo(graph, g1, i)
          /\ graph' = g1
          /\ gRun' = [gRun EXCEPT !.inRemove = TRUE]
          /\ gLog' = [gLog EXCEPT !.unloads = @ + 1,
                                  !.last = LastCall("removeBegin", i,
                                                    [nodes |-> graph.nodes, edges |-> graph.edges],
                                                    graph, g1)]

\* the store, called by the unload of a remove, calls Graph.unload for
\* another identifier, listened to
GUnloadNested ==
  /\ UNCHANGED <<cacheVars, fetchVars, gRun>>
  /\ gLog.unloads < MaxHeardUnloads
  /\ gRun.inRemove
  /\ \E j \in graph.nodes \ {graph.removing} :
       \E g1 \in {Unlisten(unload(Listen(graph), j))} :
          /\ graph' = g1
          /\ gLog' = [gLog EXCEPT !.unloads = @ + 1,
                                  !.last = LastCall("unload", j,
                                                    [nodes |-> graph.nodes, edges |-> graph.edges],
                                                    graph, g1)]

NextHeard ==
  \/ GPushHeard
  \/ GUpdateLocal
  \/ GFlushRemoteBegin
  \/ GFlushRemoteStep
  \/ GFlushRemoteEnd
  \/ GUnloadHeard
  \/ GRemoveHeard
  \/ GRemoveBegin
  \/ GRemoveBeginBelongsTo
  \/ GRemoveNested
  \/ GUnloadNested
  \/ GRemoveEnd

\* calls made on one hasMany edge in one behaviour, the length of its state
\* arrays at the start, and the deleteRecord operations pushed
MaxEdgeCalls == 2
MaxEdgeLen == 3
MaxEdgePushes == 1

\* the comments the edge can hold; c3 has no edge of its own in the graph
EdgeMembers == {"c1", "c2", "c3"}

\* the state arrays an edge can have: no identifier twice
MemberSeqs ==
  {q \in UNION {[1..n -> EdgeMembers] : n \in 0..MaxEdgeLen} :
     \A a, b \in 1..Len(q) : q[a] = q[b] => a = b}

\* the edge the calls are made on
TheEdge == <<"p1", "comments">>

\* a call on the edge: what it was, the identifier it was given, and the
\* graph before it
EdgeCall(name, x, g1) ==
  [gLog EXCEPT !.edgeCalls = @ + 1,
               !.last = [LastCall(name, "p1",
                                  [nodes |-> graph.nodes, edges |-> graph.edges],
                                  graph, g1) EXCEPT !.value = x]]

\* ManyRelationship.clear()
EClear ==
  /\ UNCHANGED <<cacheVars, fetchVars, gRun>>
  /\ gLog.edgeCalls < MaxEdgeCalls
  /\ ~gRun.running
  /\ has(graph, TheEdge[1], TheEdge[2])
  /\ \E g1 \in {clear(graph, TheEdge[1], TheEdge[2])} :
       /\ graph' = g1
       /\ gLog' = EdgeCall("clear", <<>>, g1)

\* ManyRelationship.removeCompletelyFromOwn(identifier)
ERemoveCompletelyFromOwn ==
  /\ UNCHANGED <<cacheVars, fetchVars, gRun>>
  /\ gLog.edgeCalls < MaxEdgeCalls
  /\ ~gRun.running
  /\ has(graph, TheEdge[1], TheEdge[2])
  /\ \E x \in EdgeMembers :
       \E g1 \in {removeCompletelyFromOwn(graph, TheEdge[1], TheEdge[2], x)} :
          /\ graph' = g1
          /\ gLog' = EdgeCall("removeCompletelyFromOwn", <<x>>, g1)

\* ManyRelationship.inverseDidDematerialize(inverseIdentifier), listened to
EInverseDidDematerialize ==
  /\ UNCHANGED <<cacheVars, fetchVars, gRun>>
  /\ gLog.edgeCalls < MaxEdgeCalls
  /\ ~gRun.running
  /\ has(graph, TheEdge[1], TheEdge[2])
  /\ \E x \in EdgeMembers :
       \E g1 \in {Unlisten(inverseDidDematerialize(Listen(graph), TheEdge[1], TheEdge[2], x))} :
          /\ graph' = g1
          /\ gLog' = EdgeCall("inverseDidDematerialize", <<x>>, g1)

\* ManyRelationship.forAllMembers(callback): the identifiers the callback got
EForAllMembers ==
  /\ UNCHANGED <<cacheVars, fetchVars, gRun, graph>>
  /\ gLog.edgeCalls < MaxEdgeCalls
  /\ ~gRun.running
  /\ has(graph, TheEdge[1], TheEdge[2])
  /\ gLog' = EdgeCall("forAllMembers", forAllMembers(Edge(graph, TheEdge[1], TheEdge[2])), graph)

\* Graph.push of a deleteRecord by a record cache
GPushDelete ==
  /\ gLog.pushes < MaxEdgePushes
  /\ GPush
  /\ gLog'.pending[Len(gLog'.pending)].op = "deleteRecord"

NextEdge ==
  \/ EClear
  \/ ERemoveCompletelyFromOwn
  \/ EInverseDidDematerialize
  \/ EForAllMembers
  \/ GUnload
  \/ GPushDelete
  \/ GFlushRemoteBegin
  \/ GFlushRemoteStep
  \/ GFlushRemoteEnd

NextTxn ==
  \/ GPushAny
  \/ GFlushRemoteBegin
  \/ GFlushRemoteStepDone
  \/ GFlushRemoteStepThrows
  \/ GFlushRemoteEnd

NextSync ==
  \/ GPushSync
  \/ GUpdateManySync
  \/ GFlushRemoteBegin
  \/ GFlushRemoteStep
  \/ GFlushRemoteEnd
  \/ GFlushLocal

NextGraph ==
  \/ GPush
  \/ GUpdateLocal
  \/ GUnload
  \/ GRemove
  \/ GFlushRemoteBegin
  \/ GFlushRemoteStep
  \/ GFlushRemoteEnd
  \/ GFlushLocal

\* the graph with the calls that ask it about an identifier and the removes
\* whose unload calls the store
NextRemove ==
  \/ GPush
  \/ GUnload
  \/ GRemove
  \/ GRemoveBegin
  \/ GRemoveNested
  \/ GRemoveEnd
  \/ GIsReleasable
  \/ GFlushRemoteBegin
  \/ GFlushRemoteStep
  \/ GFlushRemoteEnd

GLogInit ==
  [pushes |-> 0, locals |-> 0, unloads |-> 0, batch |-> 0, manys |-> 0,
   edgeCalls |-> 0,
   pending |-> <<>>, taken |-> <<>>, applied |-> <<>>,
   last |-> [op |-> "none", id |-> Null, before |-> NoBefore, ret |-> FALSE,
             value |-> <<>>, gone |-> {}]]

InitGraph ==
  /\ \E a \in Schemas : graph = [GraphInit EXCEPT !.async = a]
  /\ gRun = [running |-> FALSE, queue |-> <<>>, inRemove |-> FALSE]
  /\ gLog = GLogInit

(***************************************************************************)
(* The record cache and the graph                                          *)
(***************************************************************************)

\* the identifier the record cache is the cache of: a comment
RdId == "c2"

\* the keys of data.relationships in a payload for a comment: `post` is
\* declared by the schema, `author` is not
PayloadFields == {"post", "author"}

\* data.relationships of a payload: given says whether it is there, keys
\* which relationships it carries, value the data of each
NoRelationships ==
  [given |-> FALSE, keys |-> {}, value |-> [f \in PayloadFields |-> <<>>]]

Relationships(keys, post) ==
  [given |-> TRUE, keys |-> keys,
   value |-> [f \in PayloadFields |-> IF f = "post" THEN post ELSE <<"u1">>]]

RelationshipPayloads ==
  {NoRelationships}
  \cup {Relationships(keys, post) :
          keys \in {{"post"}, {"author"}, {"post", "author"}},
          post \in {<<"p1">>}}
  \cup {Relationships({"post"}, <<>>)}

\* the attribute payloads of the pushes that come with relationships
RecordPayloads == {[k \in Keys |-> IF k = "name" THEN "a" ELSE Absent]}

\* Object.keys(relationshipsDefinitionFor(modelName)) that the payload has
\* a value for, and for a payload that is walked by its own keys, those
DeclaredKeys(i, rels) ==
  SelectSeq(FieldOrder, LAMBDA f : f \in DeclaredFieldsOf(i) /\ f \in rels.keys)

PayloadKeyOrder == <<"post", "author">>

PayloadKeys(i, rels) == SelectSeq(PayloadKeyOrder, LAMBDA f : f \in rels.keys)

\* _setupRelationships(data) that goes through the keys of the payload
setupRelationshipsByPayload(i, rels) ==
  [n \in 1..Len(PayloadKeys(i, rels)) |->
     Operation("updateRelationship", i, PayloadKeys(i, rels)[n],
               rels.value[PayloadKeys(i, rels)[n]])]

\* _setupRelationships(data): the operations it pushes to the graph
setupRelationships(i, rels) ==
  [n \in 1..Len(DeclaredKeys(i, rels)) |->
     Operation("updateRelationship", i, DeclaredKeys(i, rels)[n],
               rels.value[DeclaredKeys(i, rels)[n]])]

\* removeFromInverseRelationships() that pushes nothing
removeFromInverseRelationshipsNever(i) == <<>>

\* removeFromInverseRelationships(): the operation it pushes to the graph
removeFromInverseRelationships(i) == <<Operation("deleteRecord", i, "none", <<>>)>>

\* the operations a call of the cache pushes, as the graph's buffers hold them
Tagged(ops) ==
  [n \in 1..Len(ops) |->
     Tag(ops[n], Len(gLog.pending) + n, gLog.batch, gRun.running)]

\* graphFor(storeWrapper).push(op) for each of them
PushAll(gr, tagged) == Fold(gr, tagged, push)

\* isNew(identifier) of the store follows the cache's _isNew
StoreIsNew(gr, i, new) ==
  [gr EXCEPT !.newIds = IF new THEN @ \cup {i} ELSE @ \ {i}]

\* operations the record cache pushes to the graph in one behaviour
MaxCachePushes == 2

\* the call fits in what one behaviour makes of graph calls
FitsGraphCalls(n) ==
  n > 0 => /\ GraphCalls + n <= MaxGraphCalls
           /\ gLog.pushes + n <= MaxCachePushes
           /\ gRun.running => gLog.applied # <<>>

\* the graph and its log after a call of the cache that pushed ops
CachePushes(ops, new) ==
  /\ FitsGraphCalls(Len(ops))
  /\ \E tagged \in {Tagged(ops)} :
       /\ graph' = StoreIsNew(PushAll(graph, tagged), RdId, new)
       /\ gLog' = [gLog EXCEPT
                     !.pushes = @ + Len(ops),
                     !.pending = @ \o tagged,
                     !.last = IF ops = <<>> THEN @
                              ELSE LastCall("push", RdId, NoBefore, graph,
                                            PushAll(graph, tagged))]
  /\ UNCHANGED gRun

(***************************************************************************)
(* Record cache: unloadRecord                                              *)
(***************************************************************************)

\* getLocalState(rel) and getRemoteState(rel)
getLocalState(e, f) ==
  IF isBelongsTo(f) THEN (IF e.localState # Null THEN <<e.localState>> ELSE <<>>)
  ELSE e.currentState

getRemoteState(e, f) ==
  IF isBelongsTo(f) THEN (IF e.remoteState # Null THEN <<e.remoteState>> ELSE <<>>)
  ELSE e.canonicalState

\* a sequence of sequences, joined
Flatten(seqs) ==
  LET F[n \in 0..Len(seqs)] == IF n = 0 THEN <<>> ELSE F[n - 1] \o seqs[n]
  IN F[Len(seqs)]

\* _directlyRelatedRecordDatasIterable of the cache of i: the identifiers
\* its iterator gives, in order
directlyRelated(gr, i) ==
  IF i \notin gr.nodes THEN <<>>
  ELSE LET rels == SelectSeq(KeysOf(gr, i), LAMBDA f : ~isImplicit(f))
       IN Flatten([n \in 1..Len(rels) |->
                     getLocalState(Edge(gr, i, rels[n]), rels[n])
                       \o getRemoteState(Edge(gr, i, rels[n]), rels[n])])

\* the first occurrence of each element of a sequence that is not in seen
Unseen(seq, seen) ==
  SelectSeq([n \in 1..Len(seq) |->
               IF seq[n] \notin seen /\ IndexOf(seq, seq[n]) = n THEN seq[n] ELSE Null],
            LAMBDA x : x # Null)

\* one turn of the while loop of _allRelatedRecordDatas, where walked is
\* the identifier whose relationships the turn goes through
RelatedStep(gr, st, walked) ==
  IF st.queue = <<>> THEN st
  ELSE LET identifier == Head(st.queue)
           seen == st.seen \cup {identifier}
           found == Unseen(directlyRelated(gr, walked), seen)
       IN [array |-> Append(st.array, identifier),
           queue |-> Tail(st.queue) \o found,
           seen |-> seen \cup Range(found)]

\* _allRelatedRecordDatas() of the cache of self: every turn of the loop
\* goes through the relationships of self
allRelatedRecordDatas(gr, self) ==
  LET F[n \in 0..Cardinality(Ids)] ==
        IF n = 0 THEN [array |-> <<>>, queue |-> <<self>>, seen |-> {}]
        ELSE Let(F[n - 1], LAMBDA st : RelatedStep(gr, st, self))
  IN F[Cardinality(Ids)].array

\* areAllModelsUnloaded(wrapper, identifiers), where inUse are the records
\* isRecordInUse answers true for
areAllModelsUnloaded(identifiers, inUse) == Range(identifiers) \cap inUse = {}

\* unloadRecord() without the isDestroyed check
unloadRecordAgain(r) == [reset(r) EXCEPT !.isDestroyed = TRUE]

\* unloadRecord(), what it does to the cache
unloadRecord(r) ==
  IF r.isDestroyed THEN r ELSE [reset(r) EXCEPT !.isDestroyed = TRUE]

(***************************************************************************)
(* Actions of the record cache                                             *)
(***************************************************************************)

Payloads == [Keys -> Vals \cup {Absent}]

\* what the last call on the record cache was: its name, the keys it
\* returned (or was given), the value it returned, and whether a save begun
\* by willCommit has not been settled yet; the operations it pushed to the
\* graph; for unloadRecord, whether it called Graph.unload, the identifiers
\* it examined, the ones in use and the ones it disconnected; for pushData
\* and didCommit, the payload they were given; and for each
\* key the value the user has set it to, if only pushData calls that do not
\* carry that value and getAttr calls came after; for setDirtyAttribute, the
\* dirty bucket before the call, and whether the call set back to its
\* original value a key that the call before it had made dirty; for
\* didCommit and rollbackAttributes, the in-flight bucket before the call
NoPins == [k \in Keys |-> Absent]

Last(op, keys, ret, saving) ==
  [op |-> op, keys |-> keys, ret |-> ret, saving |-> saving,
   pushed |-> <<>>, unloaded |-> FALSE,
   related |-> <<>>, inUse |-> {}, disconnected |-> <<>>,
   given |-> FALSE, payload |-> EmptyObj, relationships |-> {},
   pinned |-> NoPins, before |-> EmptyObj, trip |-> FALSE,
   flown |-> EmptyObj]

\* the original value of a key: what setDirtyAttribute compares with
OriginalValue(r, k) == IF Has(r.inFlight, k) THEN r.inFlight[k] ELSE Read(r.data, k)

RdSetDirtyAttribute ==
  /\ UNCHANGED <<fetchVars, graphVars>>
  /\ \E k \in Keys, v \in Vals \cup {Undef} :
    /\ rd' = setDirtyAttribute(rd, k, v)
    /\ rdLast' = [Last("setDirtyAttribute", {k}, v, rdLast.saving) EXCEPT
                    !.pinned = [rdLast.pinned EXCEPT
                                  ![k] = IF v = OriginalValue(rd, k)
                                         THEN Absent ELSE v],
                    !.before = rd.attributes,
                    !.trip = /\ rdLast.op = "setDirtyAttribute"
                             /\ rdLast.keys = {k}
                             /\ ~Has(rdLast.before, k)
                             /\ Has(rd.attributes, k)
                             /\ v = OriginalValue(rd, k)]

RdGetAttr ==
  /\ UNCHANGED <<fetchVars, graphVars>>
  /\ \E k \in Keys :
    /\ rd' = GetAttrTouch(rd, k)
    /\ rdLast' = [Last("getAttr", {k}, GetAttr(rd, k), rdLast.saving) EXCEPT
                    !.pinned = rdLast.pinned]

\* pushData(data, calculateChange) for a payload with attributes from
\* attrs and relationships from rels
RdPushData(attrs, rels) ==
  /\ UNCHANGED fetchVars
  /\ \E payload \in attrs, relationships \in rels, calculateChange \in BOOLEAN :
    /\ rd' = PushDataAttrs(rd, payload)
    /\ CachePushes(setupRelationships(RdId, relationships), FALSE)
    /\ rdLast' = [Last("pushData", ChangedKeys(rd, payload, calculateChange),
                       Undef, rdLast.saving) EXCEPT
                    !.pushed = setupRelationships(RdId, relationships),
                    !.given = calculateChange,
                    !.payload = payload,
                    !.relationships = relationships.keys,
                    !.pinned = [k \in Keys |->
                                  IF payload[k] = rdLast.pinned[k]
                                  THEN Absent ELSE rdLast.pinned[k]]]

RdWillCommit ==
  /\ UNCHANGED <<fetchVars, graphVars>>
  /\ rd' = willCommit(rd)
  /\ rdLast' = Last("willCommit", {}, Undef, TRUE)

RdCommitWasRejected ==
  /\ UNCHANGED <<fetchVars, graphVars>>
  /\ \E withErrors \in BOOLEAN :
    /\ rd' = commitWasRejected(rd, withErrors)
    /\ rdLast' = Last("commitWasRejected", ObjKeys(rd.inFlight), Undef, FALSE)

\* didCommit(data) for data that is null or has attributes from Payloads
\* and relationships from rels
RdDidCommit(rels) ==
  /\ UNCHANGED fetchVars
  /\ \E given \in BOOLEAN, payload \in Payloads, relationships \in rels :
    /\ given \/ (payload = EmptyObj /\ relationships = NoRelationships)
    /\ rd' = didCommit(rd, given, payload)
    /\ \E ops \in {(IF rd.isDeleted THEN removeFromInverseRelationships(RdId)
                    ELSE <<>>) \o setupRelationships(RdId, relationships)} :
         /\ CachePushes(ops, FALSE)
         /\ rdLast' = [Last("didCommit", ChangedKeys(rd, payload, given),
                            Undef, FALSE) EXCEPT
                         !.pushed = ops, !.given = given, !.payload = payload,
                         !.flown = rd.inFlight]

RdRollbackAttributes ==
  /\ UNCHANGED fetchVars
  /\ rd' = rollbackAttributes(rd)
  /\ \E ops \in {IF rd.isNew THEN removeFromInverseRelationships(RdId) ELSE <<>>} :
       /\ CachePushes(ops, FALSE)
       /\ rdLast' = [Last("rollbackAttributes", RolledBackKeys(rd),
                          RolledBack(rd), FALSE)
                       EXCEPT !.pushed = ops, !.flown = rd.inFlight]

RdClientDidCreate ==
  /\ UNCHANGED <<fetchVars, gRun, gLog>>
  /\ ~rd.isNew
  /\ rd' = clientDidCreate(rd)
  /\ graph' = StoreIsNew(graph, RdId, TRUE)
  /\ rdLast' = Last("clientDidCreate", {}, Undef, rdLast.saving)

\* unloadRecord(); isRecordInUse is the store's, and answers true for the
\* records of inUse
RdUnloadRecord ==
  /\ UNCHANGED <<fetchVars, gRun>>
  /\ ~gRun.running
  /\ rd' = unloadRecord(rd)
  /\ IF rd.isDestroyed
     THEN /\ UNCHANGED <<graph, gLog>>
          /\ rdLast' = Last("unloadRecord", {}, Undef, rdLast.saving)
     ELSE /\ GraphCalls < MaxGraphCalls
          /\ gLog.unloads < MaxUnloads
          /\ \E g1 \in {unload(graph, RdId)}, inUse \in SUBSET {"p1", "c1"} :
             \E related \in {allRelatedRecordDatas(g1, RdId)} :
               /\ graph' = g1
               /\ gLog' = [gLog EXCEPT
                             !.unloads = @ + 1,
                             !.last = LastCall("unload", RdId,
                                               [nodes |-> graph.nodes,
                                                edges |-> graph.edges],
                                               graph, g1)]
               /\ rdLast' = [Last("unloadRecord", {}, Undef, rdLast.saving) EXCEPT
                               !.unloaded = TRUE,
                               !.related = related,
                               !.inUse = inUse,
                               !.disconnected =
                                  IF areAllModelsUnloaded(related, inUse)
                                  THEN related ELSE <<>>]

NextCache ==
  \/ RdSetDirtyAttribute
  \/ RdGetAttr
  \/ RdPushData(Payloads, {NoRelationships})
  \/ RdWillCommit
  \/ RdCommitWasRejected
  \/ RdDidCommit({NoRelationships})
  \/ RdRollbackAttributes

InitCache ==
  /\ rd = RdInit
  /\ rdLast = Last("new", {}, Undef, FALSE)

\* a record cache next to the graph: the calls of the cache that reach the
\* graph, the changes the application makes to relationships and the passes
\* of the graph
NextRecord ==
  \/ RdClientDidCreate
  \/ RdPushData(RecordPayloads, RelationshipPayloads)
  \/ RdRollbackAttributes
  \/ RdUnloadRecord
  \/ GUpdateLocal
  \/ GFlushRemoteBegin
  \/ GFlushRemoteStep
  \/ GFlushRemoteEnd
  \/ GFlushLocal

(***************************************************************************)
(* Claims about the record cache                                           *)
(***************************************************************************)

\* C1: in every reachable state of a record cache and for every key k,
\* getAttr(k) is the dirty value when k is in the dirty bucket, otherwise the
\* in-flight value when k is in the in-flight bucket, otherwise the confirmed
\* value; and a getAttr call returned exactly that.
C1_DirtyThenInFlightThenData ==
  /\ \A k \in Keys :
       /\ Has(rd.attributes, k) => GetAttr(rd, k) = rd.attributes[k]
       /\ ~Has(rd.attributes, k) /\ Has(rd.inFlight, k)
            => GetAttr(rd, k) = rd.inFlight[k]
       /\ ~Has(rd.attributes, k) /\ ~Has(rd.inFlight, k)
            => GetAttr(rd, k) = Read(rd.data, k)
  /\ rdLast.op = "getAttr" =>
       \A k \in rdLast.keys : rdLast.ret = GetAttr(rd, k)

\* C1 witness: getAttr was called for a key held by all three buckets with
\* three different values
C1_Witness ==
  /\ rdLast.op = "getAttr"
  /\ \E k \in rdLast.keys :
       /\ Has(rd.attributes, k) /\ Has(rd.inFlight, k) /\ Has(rd.data, k)
       /\ rd.attributes[k] # rd.inFlight[k]
       /\ rd.inFlight[k] # rd.data[k]
       /\ rd.attributes[k] # rd.data[k]

\* C2: commitWasRejected after willCommit loses no edit: afterwards the
\* in-flight bucket is empty, every key that was in flight is in the dirty
\* bucket, and getAttr returns for every key what it returned before the
\* rejection, whatever value the user set while the save was in flight.
C2_RejectionLosesNoEdit ==
  [][ (rdLast.saving /\ rdLast'.op = "commitWasRejected") =>
        /\ ObjKeys(rd'.inFlight) = {}
        /\ \A k \in ObjKeys(rd.inFlight) : Has(rd'.attributes, k)
        /\ \A k \in Keys : GetAttr(rd', k) = GetAttr(rd, k) ]_vars

(***************************************************************************)
(* Specifications                                                          *)
(***************************************************************************)

Init == InitCache /\ InitFetch /\ InitGraph

\* the record cache alone, beside an idle fetch manager and an empty graph
\* of a store that has no unsaved record
InitCacheAlone ==
  /\ InitCache /\ InitFetch /\ fm.coalesce
  /\ graph = [GraphInit EXCEPT !.newIds = {}]
  /\ gRun = [running |-> FALSE, queue |-> <<>>, inRemove |-> FALSE]
  /\ gLog = GLogInit

SpecCache == InitCacheAlone /\ [][NextCache]_vars

\* the fetch manager alone
InitFetchAlone == Init /\ graph = GraphInit

SpecFetch == InitFetchAlone /\ [][NextFetch]_vars

\* the fetch manager and the records of the store
InitStoreAlone == InitCache /\ InitStore /\ InitGraph /\ graph = GraphInit

SpecStore == InitStoreAlone /\ [][NextStore]_vars

\* the saves of the fetch manager; the run loop runs every flush it has
\* scheduled and a flush runs to its end
SpecSave ==
  /\ InitFetchAlone
  /\ [][NextSave]_vars
  /\ WF_vars(FmFlushSavesBegin)
  /\ WF_vars(FmFlushSave)
  /\ WF_vars(FmFlushSavesEnd)

\* the graph alone
InitGraphAlone == Init /\ fm.coalesce

SpecGraph == InitGraphAlone /\ [][NextGraph]_vars

SpecRemove == InitGraphAlone /\ [][NextRemove]_vars

SpecLocal == InitGraphAlone /\ [][NextLocal]_vars

SpecSync == InitGraphAlone /\ [][NextSync]_vars

SpecTxn == InitGraphAlone /\ [][NextTxn]_vars

SpecHeard == InitGraphAlone /\ [][NextHeard]_vars

\* a graph that holds the comments of p1, in any state the calls made on the
\* edge can have left it in
InitEdge ==
  /\ InitCache /\ InitFetch /\ fm.coalesce
  /\ gRun = [running |-> FALSE, queue |-> <<>>, inRemove |-> FALSE]
  /\ gLog = GLogInit
  /\ \E a \in Schemas, cur \in MemberSeqs, can \in MemberSeqs :
       graph = [GraphInit EXCEPT
                  !.async = a,
                  !.nodes = {TheEdge[1]},
                  !.edges[TheEdge] =
                     [NewEdge EXCEPT !.currentState = cur, !.members = Range(cur),
                                     !.canonicalState = can,
                                     !.canonicalMembers = Range(can),
                                     !.hasReceivedData = TRUE]]

SpecEdge == InitEdge /\ [][NextEdge]_vars

SpecWithin == InitGraphAlone /\ [][NextWithin]_vars

\* a record cache next to the graph of a store that has no unsaved record yet
InitRecord ==
  /\ InitCache /\ InitFetch /\ fm.coalesce
  /\ \E a \in Schemas : graph = [GraphInit EXCEPT !.async = a, !.newIds = {}]
  /\ gRun = [running |-> FALSE, queue |-> <<>>, inRemove |-> FALSE]
  /\ gLog = GLogInit

SpecRecord == InitRecord /\ [][NextRecord]_vars

(***************************************************************************)
(* Claims about the fetch manager                                          *)
(***************************************************************************)

\* the scheduleFetch calls application code made after flush number e ended
\* and before the next flush began
CallsBetween(e) ==
  {n \in 1..Len(fmLog) : fmLog[n].epoch = e /\ ~fmLog[n].during}

\* flush number e has run to its end
FlushDone(e) == fm.epoch > e \/ (fm.epoch = e /\ ~fm.flushing)

\* the adapter calls flush number e made
CallsOfFlush(e) ==
  {c \in 1..Len(fm.adapterCalls) : fm.adapterCalls[c].epoch = e}

\* after flush e, scheduleFetch was called exactly twice before the next
\* flush, both times with the same identifier and the same options, and
\* nothing else was scheduled while that next flush ran
TwiceTheSame(e) ==
  /\ Cardinality(CallsBetween(e)) = 2
  /\ \A m, n \in CallsBetween(e) :
       /\ fmLog[m].identifier = fmLog[n].identifier
       /\ fmLog[m].include = fmLog[n].include
  /\ \A n \in 1..Len(fmLog) : ~(fmLog[n].during /\ fmLog[n].epoch = e + 1)

\* C3: when scheduleFetch is called twice with the same identifier and the
\* same options before the flush runs, the second call returns the promise of
\* the first, the pending table holds one entry, the flush issues exactly one
\* adapter fetch (a findRecord for that identifier), and that fetch settles
\* the one promise both callers hold, so both resolve to the same identifier.
C3_TwoCallsOneFetch ==
  \A e \in 0..MaxFetchCalls :
    TwiceTheSame(e) =>
      LET first == CHOOSE n \in CallsBetween(e) : \A m \in CallsBetween(e) : n <= m
          second == CHOOSE n \in CallsBetween(e) : \A m \in CallsBetween(e) : m <= n
          p == fmLog[first].promise
      IN /\ ~fmLog[first].reused /\ fmLog[second].reused
         /\ fmLog[second].promise = p
         /\ fm.epoch = e =>
              /\ Len(fm.pending) = 1
              /\ fm.pending[1].promise = p
              /\ fm.pending[1].identifier = fmLog[first].identifier
         /\ FlushDone(e + 1) =>
              /\ Cardinality(CallsOfFlush(e + 1)) = 1
              /\ \A c \in CallsOfFlush(e + 1) :
                   LET call == fm.adapterCalls[c]
                   IN /\ call.kind = "findRecord"
                      /\ call.ids = <<fmLog[first].identifier>>
                      /\ call.seeking[fmLog[first].identifier] = p
                      /\ call.drives
                      /\ ~call.answered => fm.promises[p] = "locked"
                      /\ call.answered => fm.promises[p] \in {"resolved", "rejected"}

\* C3 witness: two identical calls, one flush, and the promise both callers
\* hold has resolved
C3_Witness ==
  \E e \in 0..MaxFetchCalls :
    /\ TwiceTheSame(e)
    /\ FlushDone(e + 1)
    /\ \A n \in CallsBetween(e) : fm.promises[fmLog[n].promise] = "resolved"

\* C4: for any sequence of scheduleFetch calls between two flushes the
\* pending-fetch table never holds two entries with the same identifier and
\* equivalent options (equal include); a request equivalent to any pending
\* entry reuses that entry's promise.
C4_NoDuplicatePending ==
  ~fm.flushing =>
    \A m, n \in 1..Len(fm.pending) :
      (/\ fm.pending[m].identifier = fm.pending[n].identifier
       /\ fm.pending[m].include = fm.pending[n].include) => m = n

(***************************************************************************)
(* Claims about the relationship graph                                     *)
(***************************************************************************)

\* the loop of a pass an operation belongs to: 0 for a deletion, 1 for an
\* update of a hasMany, 2 for an update of a belongsTo
ClassOf(op) ==
  IF op.op = "deleteRecord" THEN 0
  ELSE IF op.op # "replaceRelatedRecord" /\ isHasMany(op.field) THEN 1
  ELSE 2

\* C5: a coalesce pass applies the operations it detached in a fixed order:
\* every deletion, then every hasMany update, then every belongsTo update,
\* and within each of the three in the order in which they were pushed.
C5_DeletionsThenHasManyThenBelongsTo ==
  /\ Range(gLog.applied) \subseteq Range(gLog.taken)
  /\ \A a, b \in 1..Len(gLog.applied) :
       a < b =>
         \/ ClassOf(gLog.applied[a]) < ClassOf(gLog.applied[b])
         \/ /\ ClassOf(gLog.applied[a]) = ClassOf(gLog.applied[b])
            /\ gLog.applied[a].seq < gLog.applied[b].seq

\* C5 happens: a finished pass applied a deletion, a hasMany update and a
\* belongsTo update which had been pushed in the opposite order
C5_Witness ==
  /\ ~gRun.running
  /\ Len(gLog.applied) = 3
  /\ ClassOf(gLog.applied[1]) = 0 /\ gLog.applied[1].seq = 3
  /\ ClassOf(gLog.applied[2]) = 1 /\ gLog.applied[2].seq = 2
  /\ ClassOf(gLog.applied[3]) = 2 /\ gLog.applied[3].seq = 1

References(e, f, x) ==
  IF isBelongsTo(f) THEN x \in {e.localState, e.remoteState}
  ELSE x \in Range(e.canonicalState) \cup Range(e.currentState)
              \cup e.members \cup e.canonicalMembers

\* the edge e of a field f holds the value of a replacement
Reflects(e, f, value) ==
  IF isBelongsTo(f)
  THEN LET v == IF value = <<>> THEN Null ELSE value[1]
       IN e.remoteState = v /\ e.localState = v
  ELSE e.canonicalState = value

\* C7: when a pass has applied a deleteRecord and a replacement of a
\* relationship of the same identifier, pushed in either order and nothing
\* else with them, the identifier's edge holds the replacement and no edge
\* of another identifier refers to it, other than the inverse edges of the
\* records the replacement names.
C7_DeletionThenReplacement ==
  (gLog.last.op = "finalize" /\ Len(gLog.taken) = 2) =>
    \A d, r \in 1..2 :
      (/\ gLog.taken[d].op = "deleteRecord"
       /\ gLog.taken[r].op # "deleteRecord"
       /\ gLog.taken[r].record = gLog.taken[d].record) =>
        LET x == gLog.taken[r].record
            f == gLog.taken[r].field
            value == gLog.taken[r].value
        IN /\ has(graph, x, f)
           /\ Reflects(Edge(graph, x, f), f, value)
           /\ \A k \in EdgeKeys :
                (k[1] # x /\ has(graph, k[1], k[2])
                   /\ References(graph.edges[k], k[2], x)) =>
                  (k[2] = InverseKey(f) /\ k[1] \in Range(value))

\* the graph as it was before the last unload or remove
Before == [graph EXCEPT !.nodes = gLog.last.before.nodes,
                        !.edges = gLog.last.before.edges]

\* the identifiers a hasMany edge holds in its current or canonical state
Held(e) == Range(e.currentState) \cup Range(e.canonicalState)

\* C8 as the documentation states it: after Graph.unload(A), every B that a
\* hasMany edge of A held, and whose inverse edge is synchronous and not
\* implicit, has an inverse edge that refers to A no longer.
C8_UnloadSeversEveryInverse ==
  gLog.last.op = "unload" =>
    LET A == gLog.last.id
    IN \A f \in FieldsOf(A) :
         (isHasMany(f) /\ has(Before, A, f)) =>
           \A B \in Held(Edge(Before, A, f)) :
             (/\ has(Before, B, InverseKey(f))
              /\ ~isImplicit(InverseKey(f))
              /\ ~IsAsync(graph, InverseKey(f))) =>
               ~References(Edge(graph, B, InverseKey(f)), InverseKey(f), A)

\* C8: after Graph.unload(A), every B that a hasMany edge of A held, and
\* whose inverse edge is synchronous, not implicit and, when it is a
\* belongsTo, had A as its local state, has an inverse edge that refers to A
\* no longer.
C8_UnloadSeversInverseThatPointsBack ==
  gLog.last.op = "unload" =>
    LET A == gLog.last.id
    IN \A f \in FieldsOf(A) :
         (isHasMany(f) /\ has(Before, A, f)) =>
           \A B \in Held(Edge(Before, A, f)) :
             (/\ has(Before, B, InverseKey(f))
              /\ ~isImplicit(InverseKey(f))
              /\ ~IsAsync(graph, InverseKey(f))
              /\ isBelongsTo(InverseKey(f)) =>
                   Edge(Before, B, InverseKey(f)).localState = A) =>
               ~References(Edge(graph, B, InverseKey(f)), InverseKey(f), A)

\* C8 happens: a post was unloaded which held a comment whose synchronous
\* post edge pointed back at it
C8_Witness ==
  /\ gLog.last.op = "unload"
  /\ has(Before, gLog.last.id, "comments")
  /\ ~IsAsync(graph, "post")
  /\ \E B \in Held(Edge(Before, gLog.last.id, "comments")) :
       /\ has(Before, B, "post")
       /\ Edge(Before, B, "post").localState = gLog.last.id
       /\ Edge(Before, B, "post").remoteState = gLog.last.id
       /\ ~References(Edge(graph, B, "post"), "post", gLog.last.id)

\* the edge e of a field f is in its cleared form
Cleared(e, f) ==
  IF isBelongsTo(f) THEN e.localState = Null /\ e.remoteState = Null
  ELSE e.canonicalState = <<>> /\ e.currentState = <<>>

\* an edge leaves the graph only in Graph.remove or in a deleteRecord, of
\* its own identifier
OnlyRemoveAndDeleteTakeEdges ==
  gLog.last.gone # {} =>
    /\ gLog.last.op \in {"remove", "deleteRecord"}
    /\ \A k \in gLog.last.gone : k[1] = gLog.last.id

\* C9 as the documentation states it: after Graph.unload(X) every edge of X
\* that is not implicit is still in the graph and is cleared; such an edge
\* leaves the graph only in Graph.remove(X) or in a deleteRecord.
C9_UnloadKeepsAndClearsEdges ==
  /\ gLog.last.op = "unload" =>
       \A f \in FieldsOf(gLog.last.id) :
         (~isImplicit(f) /\ has(Before, gLog.last.id, f)) =>
           /\ has(graph, gLog.last.id, f)
           /\ Cleared(Edge(graph, gLog.last.id, f), f)
  /\ OnlyRemoveAndDeleteTakeEdges

\* C9: after Graph.unload(X) every edge of X that is not implicit is still
\* in the graph, and is cleared when its inverse is neither implicit nor
\* async; such an edge leaves the graph only in Graph.remove(X) or in a
\* deleteRecord.
C9_UnloadKeepsEdgesClearsSyncOnes ==
  /\ gLog.last.op = "unload" =>
       \A f \in FieldsOf(gLog.last.id) :
         (~isImplicit(f) /\ has(Before, gLog.last.id, f)) =>
           /\ has(graph, gLog.last.id, f)
           /\ (~InverseIsImplicit(f) /\ ~InverseIsAsync(graph, f)) =>
                Cleared(Edge(graph, gLog.last.id, f), f)
  /\ OnlyRemoveAndDeleteTakeEdges

\* C9 happens: an unload has cleared an edge which held something, whose
\* inverse is neither implicit nor async, and the edge is still in the graph
C9_Witness ==
  /\ gLog.last.op = "unload"
  /\ \E f \in FieldsOf(gLog.last.id) :
       /\ ~isImplicit(f) /\ ~InverseIsImplicit(f) /\ ~InverseIsAsync(graph, f)
       /\ has(Before, gLog.last.id, f)
       /\ ~Cleared(Edge(Before, gLog.last.id, f), f)
       /\ has(graph, gLog.last.id, f)
       /\ Cleared(Edge(graph, gLog.last.id, f), f)

\* C10: Graph.unload(X) takes an implicit edge of X out of the graph only
\* when X is releasable; when X is not releasable the implicit edge stays in
\* the graph with its members.
C10_ImplicitEdgeKeptUnlessReleasable ==
  gLog.last.op = "unload" =>
    \A f \in FieldsOf(gLog.last.id) :
      (isImplicit(f) /\ has(Before, gLog.last.id, f)) =>
        /\ ~has(graph, gLog.last.id, f) => isReleasable(Before, gLog.last.id)
        /\ ~isReleasable(Before, gLog.last.id) =>
             /\ has(graph, gLog.last.id, f)
             /\ Edge(graph, gLog.last.id, f).members
                  = Edge(Before, gLog.last.id, f).members

(***************************************************************************)
(* Claims about unloadRecord                                               *)
(***************************************************************************)

\* the identifiers one hop away from those of S, over the current and the
\* canonical state of the non-implicit edges, and S itself
OneHop(gr, S) == S \cup UNION {Range(directlyRelated(gr, x)) : x \in S}

\* i and everything reachable from it through any number of hops
Closure(gr, i) ==
  LET F[n \in 0..Cardinality(Ids)] == IF n = 0 THEN {i} ELSE OneHop(gr, F[n - 1])
  IN F[Cardinality(Ids)]

\* unloadRecord has just gone through its body: the graph is as Graph.unload
\* left it
JustUnloaded ==
  rdLast.op = "unloadRecord" /\ rdLast.unloaded /\ gLog.last.op = "unload"

\* C11: the identifiers unloadRecord examines are the record's own
\* identifier and every identifier reachable from it through any number of
\* hops over the current and canonical state of the non-implicit edges (as
\* they are once Graph.unload has run), each listed once.
C11_UnloadExaminesTheClosure ==
  JustUnloaded =>
    /\ Range(rdLast.related) = Closure(graph, RdId)
    /\ Len(rdLast.related) = Cardinality(Range(rdLast.related))

\* C12: unloadRecord disconnects all or nothing: when a record of the set
\* it examined is in use it disconnects none of them, otherwise each of
\* them once; and when no record that can be reached from the unloaded one
\* is in use any more, as in a cycle of records that only the unloaded one
\* kept in use, all of them are disconnected.
C12_UnloadDisconnectsAllOrNothing ==
  JustUnloaded =>
    /\ Range(rdLast.related) \cap rdLast.inUse # {} => rdLast.disconnected = <<>>
    /\ Range(rdLast.related) \cap rdLast.inUse = {} =>
          rdLast.disconnected = rdLast.related
    /\ Closure(graph, RdId) \cap rdLast.inUse = {} =>
          Range(rdLast.disconnected) = Closure(graph, RdId)

\* the step is a call of unloadRecord
UnloadRecordCalled ==
  rdLast'.op = "unloadRecord" /\ <<rd, rdLast>>' # <<rd, rdLast>>

C14_DirtyValueSurvivesPushes ==
  \A k \in Keys :
    rdLast.pinned[k] # Absent => GetAttr(rd, k) = rdLast.pinned[k]

\* C15: setDirtyAttribute(k, v) leaves k in the dirty bucket with value v,
\* unless v is the original value of k (the in-flight value if k is in
\* flight, else the confirmed value), and then k is not in the dirty bucket
\* afterwards; no other key of the dirty bucket changes; and when a key that
\* was not dirty is set to another value and then back to its original, the
\* dirty bucket holds what it held before both calls.
C15_SetDirtyAttributeAndBack ==
  [][ rdLast'.op = "setDirtyAttribute" =>
        \A k \in rdLast'.keys :
          /\ rdLast'.ret # OriginalValue(rd, k)
               => Has(rd'.attributes, k) /\ rd'.attributes[k] = rdLast'.ret
          /\ rdLast'.ret = OriginalValue(rd, k) => ~Has(rd'.attributes, k)
          /\ \A j \in Keys \ {k} : rd'.attributes[j] = rd.attributes[j]
          /\ rdLast'.trip => rd'.attributes = rdLast.before ]_vars

\* C15 witness: while a save is in flight, a key whose in-flight value is
\* not its confirmed value was made dirty and then set back to the in-flight
\* value, next to another key that stays dirty
C15_Witness ==
  /\ rdLast.op = "setDirtyAttribute" /\ rdLast.trip
  /\ \E k \in rdLast.keys :
       /\ Has(rd.inFlight, k) /\ rd.inFlight[k] # Read(rd.data, k)
       /\ rdLast.ret = rd.inFlight[k]
       /\ ~Has(rd.attributes, k)
       /\ \E j \in Keys \ {k} : Has(rd.attributes, j)

\* C16: after didCommit(data) the in-flight bucket is empty; for every key k
\* that was in flight the confirmed value is data.attributes[k] when the
\* payload supplies k and the in-flight value otherwise; and a dirty value
\* stays in the dirty bucket unless it equals the new confirmed value, and
\* then its dirty entry is removed.
C16_DidCommitMergesInFlight ==
  [][ rdLast'.op = "didCommit" =>
        /\ ObjKeys(rd'.inFlight) = {}
        /\ \A k \in ObjKeys(rd.inFlight) :
             Read(rd'.data, k) =
               IF rdLast'.given /\ Has(rdLast'.payload, k)
               THEN rdLast'.payload[k] ELSE rd.inFlight[k]
        /\ \A k \in ObjKeys(rd.attributes) :
             IF rd.attributes[k] = Read(rd'.data, k)
             THEN ~Has(rd'.attributes, k)
             ELSE rd'.attributes[k] = rd.attributes[k] ]_vars

\* C16 witness: didCommit confirmed one in-flight key with the value of the
\* payload, which differs from the in-flight one, and the other in-flight
\* key, which the payload leaves out, with its in-flight value, while that
\* key keeps a dirty value set during the save
C16_Witness ==
  /\ rdLast.op = "didCommit" /\ rdLast.given
  /\ ObjKeys(rd.inFlight) = {}
  /\ \E k \in ObjKeys(rdLast.flown), j \in ObjKeys(rdLast.flown) :
       /\ Has(rdLast.payload, k) /\ rdLast.payload[k] # rdLast.flown[k]
       /\ rd.data[k] = rdLast.payload[k]
       /\ ~Has(rdLast.payload, j) /\ rd.data[j] = rdLast.flown[j]
       /\ Has(rd.attributes, j)

\* C17: after rollbackAttributes, from any state reached by
\* setDirtyAttribute, willCommit, pushData, didCommit and commitWasRejected,
\* the dirty bucket is empty and getAttr(k) is the confirmed value for every
\* key k; the call returns exactly the keys that were dirty.
C17_RollbackReturnsDirtyKeys ==
  [][ rdLast'.op = "rollbackAttributes" =>
        /\ ObjKeys(rd'.attributes) = {}
        /\ \A k \in Keys : GetAttr(rd', k) = Read(rd.data, k)
        /\ rdLast'.ret = "array"
        /\ rdLast'.keys = ObjKeys(rd.attributes) ]_vars

\* C17, amended: after rollbackAttributes the dirty bucket is empty and
\* getAttr(k) is the confirmed value for every key k; the call returns
\* exactly the keys that were dirty when some key was dirty, and undefined
\* when none was.
C17_RollbackRestoresConfirmed ==
  [][ rdLast'.op = "rollbackAttributes" =>
        /\ ObjKeys(rd'.attributes) = {}
        /\ \A k \in Keys : GetAttr(rd', k) = Read(rd.data, k)
        /\ IF ObjKeys(rd.attributes) = {}
           THEN rdLast'.ret = Undef
           ELSE rdLast'.ret = "array" /\ rdLast'.keys = ObjKeys(rd.attributes)
      ]_vars

\* C17 witness: rollbackAttributes was called during a save, with one key
\* dirty and the other in flight, both confirmed with another value before,
\* and returned the dirty key
C17_Witness ==
  /\ rdLast.op = "rollbackAttributes" /\ rdLast.ret = "array"
  /\ ObjKeys(rd.attributes) = {} /\ ObjKeys(rd.inFlight) = {}
  /\ \E k \in rdLast.keys, j \in ObjKeys(rdLast.flown) \ rdLast.keys :
       /\ Has(rd.data, k)
       /\ Has(rd.data, j) /\ rd.data[j] # rdLast.flown[j]
       /\ GetAttr(rd, j) = rd.data[j]

\* C19: pushData(payload, calculateChange = true) returns exactly the payload
\* attribute keys that have no user-dirty value and whose payload value
\* differs from the believed backend value of the key (the in-flight value
\* if the key is in flight, else the confirmed value before the push); a key
\* with a user-dirty value is never in the returned list.
C19_PushDataReturnsBackendChanges ==
  [][ rdLast'.op = "pushData" /\ rdLast'.given =>
        /\ rdLast'.keys =
             {k \in ObjKeys(rdLast'.payload) :
                /\ ~Has(rd.attributes, k)
                /\ rdLast'.payload[k] # OriginalValue(rd, k)}
        /\ \A k \in ObjKeys(rd.attributes) : k \notin rdLast'.keys ]_vars

(***************************************************************************)
(* Claims about the record cache and the graph                             *)
(***************************************************************************)

\* the step is a call of rollbackAttributes
RollbackCalled ==
  rdLast'.op = "rollbackAttributes" /\ <<rd, rdLast>>' # <<rd, rdLast>>

\* the step ends a coalesce pass that applied a deleteRecord for the record
\* and no payload that names the record
PassDeletedTheRecord ==
  /\ gRun.running /\ ~gRun'.running
  /\ gLog.applied # <<>>
  /\ \A n \in 1..Len(gLog.applied) :
       gLog.applied[n].op = "deleteRecord" /\ gLog.applied[n].record = RdId

\* an edge of another identifier refers to the record
ReferredToByOthers(gr, i) ==
  {k \in EdgeKeys : k[1] # i /\ i \in Referred(gr.edges[k], k[2])}

PushDataCalled ==
  /\ rdLast'.op = "pushData"
  /\ <<rd, rdLast>>' # <<rd, rdLast>> \/ gLog'.pushes # gLog.pushes

\* the operations a step added to a buffer
Added(before, after) == SubSeq(after, Len(before) + 1, Len(after))

\* C20: pushData enqueues on the graph exactly one updateRelationship
\* operation for each relationship key that is both declared in the schema
\* of the type and present in the payload, and none for a payload key the
\* schema does not declare; the graph holds nothing more for an undeclared
\* key afterwards: apart from the edges of the declared keys of the payload,
\* its nodes and edges are what they were.
C20_PushDataFollowsTheSchema ==
  [][ PushDataCalled =>
        LET declared == rdLast'.relationships \cap DeclaredFieldsOf(RdId)
        IN /\ graph'.deletions = graph.deletions
           /\ Len(graph'.hasMany) >= Len(graph.hasMany)
           /\ Len(graph'.belongsTo) >= Len(graph.belongsTo)
           /\ Len(graph'.hasMany) + Len(graph'.belongsTo)
                = Len(graph.hasMany) + Len(graph.belongsTo) + Cardinality(declared)
           /\ Added(gLog.pending, gLog'.pending)
                = Added(graph.hasMany, graph'.hasMany)
                    \o Added(graph.belongsTo, graph'.belongsTo)
           /\ \A f \in declared :
                Cardinality({n \in 1..Len(gLog'.pending) \ 1..Len(gLog.pending) :
                               /\ gLog'.pending[n].op = "updateRelationship"
                               /\ gLog'.pending[n].record = RdId
                               /\ gLog'.pending[n].field = f}) = 1
           /\ \A k \in EdgeKeys :
                ~(k[1] = RdId /\ k[2] \in declared)
                  => graph'.edges[k] = graph.edges[k]
           /\ graph'.nodes \subseteq graph.nodes \cup {RdId}
           /\ declared = {} => graph'.nodes = graph.nodes ]_vars

\* C20 witness: pushData was called with a payload that has the declared
\* post and the undeclared author, and the graph has one operation pending,
\* for the post
C20_Witness ==
  /\ rdLast.op = "pushData"
  /\ rdLast.relationships = {"post", "author"}
  /\ Len(gLog.pending) = 1
  /\ gLog.pending[1].op = "updateRelationship"
  /\ gLog.pending[1].record = RdId /\ gLog.pending[1].field = "post"
  /\ graph.belongsTo = gLog.pending /\ graph.hasMany = <<>>

(***************************************************************************)
(* Claims about the passes of the graph                                    *)
(***************************************************************************)

\* the step is a call of Graph.push
PushCalled == gLog'.pushes = gLog.pushes + 1

\* C21: for any number of Graph.push calls made while no coalesce pass is
\* pending, exactly one coalesce pass is scheduled: a push that finds no
\* pass pending schedules one, a push that finds one pending schedules
\* nothing, so that at most one pass is ever scheduled; and after a pass has
\* run none is pending, so the next push schedules exactly one.
C21_OnePassPerBurstOfPushes ==
  [][ /\ PushCalled =>
           /\ graph.coalesceQueue = 0 => graph'.coalesceQueue = 1
           /\ graph.coalesceQueue > 0 => graph'.coalesceQueue = graph.coalesceQueue
      /\ graph'.coalesceQueue <= 1
      /\ gRun.running /\ ~gRun'.running /\ gLog.pending = <<>>
           => graph'.coalesceQueue = 0 ]_vars

\* C21 witness: after a pass that applied one pushed operation, two more
\* pushes were made and one pass is scheduled
C21_Witness ==
  /\ ~gRun.running
  /\ Len(gLog.applied) = 1
  /\ Len(gLog.pending) = 2
  /\ gLog.pending[1].batch = gLog.pending[2].batch
  /\ ~gLog.pending[1].during /\ ~gLog.pending[2].during
  /\ graph.coalesceQueue = 1

\* C22: isReleasable(identifier) returns false if and only if some edge
\* currently held for the identifier has an async inverse; it returns true
\* for an identifier with no edge table or with no edges; and it changes no
\* graph state.
C22_ReleasableIffNoAsyncInverse ==
  [][ gLog'.last.op = "isReleasable" =>
        LET i == gLog'.last.id
            held == {k \in EdgeKeys : k[1] = i /\ graph.edges[k].exists}
        IN /\ gLog'.last.ret = FALSE
                <=> \E k \in held : InverseIsAsync(graph, k[2])
           /\ i \notin graph.nodes => gLog'.last.ret = TRUE
           /\ held = {} => gLog'.last.ret = TRUE
           /\ graph' = graph ]_vars

\* C22 witness: isReleasable returned false for a post that holds an edge
\* whose inverse is async
C22_Witness ==
  /\ gLog.last.op = "isReleasable" /\ gLog.last.ret = FALSE
  /\ gLog.last.id \in graph.nodes
  /\ has(graph, gLog.last.id, "comments")
  /\ InverseIsAsync(graph, "comments")

\* C23: Graph.remove called while another removal is in progress fails with
\* an assertion and changes no graph state; whenever no remove is executing
\* the _removing slot is null, including after a remove that completed or
\* failed; and after remove(X) completes X has no edge table: has(X, field)
\* is false for every field.
C23_RemoveIsGuardedAndLeavesNoSlot ==
  [][ /\ gLog'.last.op = "removeFailed" => graph' = graph
      /\ ~gRun'.inRemove => graph'.removing = Null
      /\ gLog'.last.op = "remove" =>
           /\ gLog'.last.id \notin graph'.nodes
           /\ \A f \in FieldsOf(gLog'.last.id) : ~has(graph', gLog'.last.id, f)
    ]_vars

(***************************************************************************)
(* Claims about the answers to the fetch manager's adapter calls           *)
(***************************************************************************)

\* the findMany calls the adapter has answered
AnsweredBatches ==
  {c \in 1..Len(fm.adapterCalls) :
     fm.adapterCalls[c].kind = "findMany" /\ fm.adapterCalls[c].answered}

\* C24: in a batched fetch whose response omits some requested ids, each
\* requester whose id is in the response is resolved, each requester whose id
\* is missing is rejected, and no requester whose id is present is rejected.
C24_BatchSettlesEachRequester ==
  \A c \in AnsweredBatches :
    LET call == fm.adapterCalls[c]
    IN \A n \in 1..Len(call.members) :
         /\ call.ids[n] \in call.found =>
              fm.promises[call.members[n]] = "resolved"
         /\ call.ids[n] \notin call.found =>
              fm.promises[call.members[n]] = "rejected"

\* a flush has handed the pending fetches of one more type to the adapter
TypeFlushed == fm.flushing /\ fm'.flushing /\ fm'.processed # fm.processed

\* the adapter calls made in this step
NewCalls ==
  SubSeq(fm'.adapterCalls, Len(fm.adapterCalls) + 1, Len(fm'.adapterCalls))

\* C25: at a flush, for each type with pending fetches: when the adapter
\* coalesces, each group of more than one snapshot causes exactly one findMany
\* call (for the ids of the group) and no findRecord call, and each group of
\* exactly one snapshot causes exactly one findRecord call (for its id); when
\* the adapter does not coalesce, exactly one findRecord call is made per
\* pending entry, in order.
C25_OneCallPerGroup ==
  [][TypeFlushed =>
      LET type == CHOOSE t \in fm'.processed : t \notin fm.processed
          items == PendingOfType(fm, type)
          groups == fm'.grouped
      IN /\ fm.coalesce =>
              /\ Len(NewCalls) = Len(groups)
              /\ \A g \in 1..Len(groups) :
                   /\ NewCalls[g].kind =
                        (IF Len(groups[g]) > 1 THEN "findMany" ELSE "findRecord")
                   /\ NewCalls[g].ids =
                        [n \in 1..Len(groups[g]) |-> items[groups[g][n]].identifier]
         /\ ~fm.coalesce =>
              /\ Len(NewCalls) = Len(items)
              /\ \A n \in 1..Len(items) :
                   /\ NewCalls[n].kind = "findRecord"
                   /\ NewCalls[n].ids = <<items[n].identifier>>
                   /\ NewCalls[n].members = <<items[n].promise>>]_vars

\* C25 witness: one flush of a coalescing adapter has made a findMany call for
\* a group of two and a findRecord call for a group of one
C25_Witness ==
  /\ fm.coalesce
  /\ fm.flushing
  /\ \E g, h \in 1..Len(fm.grouped) : Len(fm.grouped[g]) = 2 /\ Len(fm.grouped[h]) = 1
  /\ \E c, d \in CallsOfFlush(fm.epoch) :
       /\ fm.adapterCalls[c].kind = "findMany"
       /\ fm.adapterCalls[d].kind = "findRecord"

\* scheduleFetch is called in this step
ScheduleFetchCalled == Len(fmLog') = Len(fmLog) + 1

\* the request of call m of scheduleFetch has been dispatched by a flush and
\* its adapter call has not been answered
Dispatched(m) ==
  /\ ~fmLog[m].reused
  /\ fm.promises[fmLog[m].promise] \in {"pending", "locked"}
  /\ \E c \in 1..Len(fm.adapterCalls) :
       /\ ~fm.adapterCalls[c].answered
       /\ \E n \in 1..Len(fm.adapterCalls[c].members) :
            fm.adapterCalls[c].members[n] = fmLog[m].promise

\* C26: a scheduleFetch for an identifier whose equivalent earlier request has
\* been dispatched by a flush and not yet answered returns the earlier
\* request's promise and adds no pending fetch, so no second adapter call.
C26_DispatchedRequestIsReused ==
  [][(ScheduleFetchCalled /\ ~fm.flushing) =>
      LET new == fmLog'[Len(fmLog')]
      IN \A m \in 1..Len(fmLog) :
           (/\ Dispatched(m)
            /\ fmLog[m].identifier = new.identifier
            /\ fmLog[m].include = new.include)
           => /\ new.promise = fmLog[m].promise
              /\ fm'.pending = fm.pending]_vars

(***************************************************************************)
(* Claims about the saves of the fetch manager                             *)
(***************************************************************************)

\* the adapter operations made for the save scheduleSave call number n made
SaveCallsOf(n) ==
  {k \in 1..Len(fm.saveCalls) : fm.saveCalls[k].resolver = n}

\* what holds of the saves in every state
SavesInOrderOnceEach ==
  \* adapter operations are made in the order the saves were scheduled
  /\ \A j, k \in 1..Len(fm.saveCalls) :
       j < k => fm.saveCalls[j].resolver < fm.saveCalls[k].resolver
  \* an adapter operation is the operation of one scheduled save, for its
  \* identifier
  /\ \A k \in 1..Len(fm.saveCalls) :
       LET call == fm.saveCalls[k]
       IN /\ call.resolver \in 1..Len(fm.saveLog)
          /\ call.operation = fm.saveLog[call.resolver].operation
          /\ call.identifier = fm.saveLog[call.resolver].identifier
  \* a save is pending, or being flushed, or has caused one adapter operation
  /\ \A n \in 1..Len(fm.saveLog) :
       Cardinality(SaveCallsOf(n))
         + Cardinality({k \in 1..Len(fm.pendingSave) : fm.pendingSave[k].resolver = n})
         + Cardinality({k \in 1..Len(fm.toSave) : fm.toSave[k].resolver = n}) = 1
  \* a save scheduled while a flush runs waits for a later flush, and a flush
  \* is scheduled while a save is pending
  /\ \A n \in 1..Len(fm.saveLog) : \A k \in SaveCallsOf(n) :
       /\ fm.saveCalls[k].epoch > fm.saveLog[n].epoch
       /\ ~fm.saveLog[n].during => fm.saveCalls[k].epoch = fm.saveLog[n].epoch + 1
  /\ fm.pendingSave # <<>> => fm.savesScheduled

\* C27: saves scheduled in one turn are flushed in the order they were
\* scheduled; each pending save causes exactly one adapter operation (its own
\* create, update or delete) and is flushed exactly once, saves for different
\* records are never merged into one call, and a save scheduled during a flush
\* is flushed by a later flush.
C27_SavesFlushedInOrderOnce ==
  /\ []SavesInOrderOnceEach
  /\ \A n \in 1..MaxSaves :
       (Len(fm.saveLog) >= n) ~> (Cardinality(SaveCallsOf(n)) = 1)

\* C27 witness: two saves scheduled in one turn and a third scheduled while
\* they were flushed; the first flush made two adapter operations and a later
\* flush the third
C27_Witness ==
  /\ Len(fm.saveCalls) = 3
  /\ ~fm.saveLog[1].during /\ ~fm.saveLog[2].during /\ fm.saveLog[3].during
  /\ fm.saveLog[1].identifier # fm.saveLog[2].identifier
  /\ fm.saveCalls[1].epoch = 1 /\ fm.saveCalls[2].epoch = 1
  /\ fm.saveCalls[3].epoch = 2
  /\ ~fm.flushingSaves

(***************************************************************************)
(* Claims about fetches and the records of the store                       *)
(***************************************************************************)

\* the requests whose promise has settled
SettledRequests ==
  {p \in PromiseIds : fm.promises[p] \in {"resolved", "rejected"}}

\* C28: a fetch response that arrives after the record of its identifier was
\* destroyed is discarded, its payload is never pushed into the store; and
\* when a fetch is rejected for a record that was never materialized (not
\* loaded when the fetch was scheduled) the record is unloaded and the error
\* still reaches the caller.
C28_LateResponseIsDiscarded ==
  \A p \in SettledRequests :
    /\ fm.requests[p].late => fm.requests[p].outcome # "pushed"
    /\ (fm.promises[p] = "rejected" /\ fm.requests[p].isLoading) =>
         /\ fm.requests[p].unloaded
         /\ fm.requests[p].outcome = "thrown"

(***************************************************************************)
(* Claims about the data of a hasMany edge                                 *)
(***************************************************************************)

\* the hasMany edges the graph holds
ManyEdges == {k \in EdgeKeys : isHasMany(k[2]) /\ graph.edges[k].exists}

\* C29: a hasMany edge's getData() contains a data key if and only if the
\* edge's hasReceivedData flag is true, and then data is the current state in
\* order; clear() does not reset the flag, so an edge that received data and
\* was cleared reports data: [] while an edge that never received data
\* reports no data key.
C29_DataIffReceived ==
  \A k \in ManyEdges :
    LET e == graph.edges[k]
        cleared == clearMany(e)
    IN /\ ("data" \in DOMAIN getData(e)) <=> e.hasReceivedData
       /\ e.hasReceivedData => getData(e)["data"] = e.currentState
       /\ cleared.hasReceivedData = e.hasReceivedData
       /\ cleared.currentState = <<>>
       /\ e.hasReceivedData => getData(cleared) = [key \in {"data"} |-> <<>>]
       /\ ~e.hasReceivedData => DOMAIN getData(cleared) = {}

\* C29 witness: an unload has cleared a hasMany edge that held related
\* records, and the edge still says it received data
C29_Witness ==
  \E k \in ManyEdges :
    /\ gLog.last.op = "unload"
    /\ gLog.last.id = k[1]
    /\ gLog.last.before.edges[k].currentState # <<>>
    /\ graph.edges[k].currentState = <<>>
    /\ graph.edges[k].hasReceivedData
    /\ getData(graph.edges[k]) = [key \in {"data"} |-> <<>>]

(***************************************************************************)
(* Claims about local changes of a hasMany edge                            *)
(***************************************************************************)

\* C30: for the hasMany field comments of a post A, whose inverse is the
\* belongsTo field post of a comment B: after B is locally added to
\* A.comments the current state of B.post is A, and after B is locally
\* removed from A.comments the current state of B.post no longer is A; this
\* holds after any sequence of such adds and removes.
C30_LocalAddsAndRemovesReachTheInverse ==
  /\ gLog.last.op = "addToRelatedRecords" =>
       \A b \in Range(gLog.last.value) :
         /\ has(graph, b, "post")
         /\ Edge(graph, b, "post").localState = gLog.last.id
         /\ b \in Edge(graph, gLog.last.id, "comments").members
  /\ gLog.last.op = "removeFromRelatedRecords" =>
       \A b \in Range(gLog.last.value) :
         /\ Edge(graph, b, "post").localState # gLog.last.id
         /\ b \notin Edge(graph, gLog.last.id, "comments").members

\* C30 witness: a comment that was added to one post and then to another has
\* been removed from the second
C30_Witness ==
  /\ gLog.manys = 3
  /\ gLog.last.op = "removeFromRelatedRecords"
  /\ gLog.last.id = "p2"
  /\ gLog.last.value = <<"c1">>
  /\ Edge(graph, "p1", "comments").currentState = <<"c2">>
  /\ Edge(graph, "c2", "post").localState = "p1"
  /\ has(graph, "c1", "post")
  /\ Edge(graph, "c1", "post").localState = Null

(***************************************************************************)
(* Claims about the local-sync pass                                        *)
(***************************************************************************)

\* the hasMany edges the local-sync pass of this step has synced
SyncedEdges ==
  {k \in EdgeKeys : /\ gLog'.last.op = "flushLocal"
                    /\ graph.willSyncLocal
                    /\ k \in graph.updatedRelationships
                    /\ isHasMany(k[2])}

\* the records of a hasMany edge that exist on the client only and are not in
\* its canonical state, in the order of its current state
UnsavedOf(e) ==
  SelectSeq(e.currentState,
            LAMBDA x : isNew(graph, x) /\ x \notin Range(e.canonicalState))

InTransaction == {k \in EdgeKeys : graph.edges[k].transactionRef > 0}

\* C32: whenever no coalesce pass is running the graph has no open
\* transaction and every edge's transactionRef is 0, also after a pass in
\* which an operation failed; during a pass every edge whose transactionRef
\* is above 0 is a member of the transaction set.
C32_TransactionClosedBetweenPasses ==
  /\ ~gRun.running => (~graph.transactionOpen /\ InTransaction = {})
  /\ gRun.running => InTransaction \subseteq graph.transaction

\* C33: a coalesce pass never starts while another pass's transaction is
\* open: _flushRemoteQueue invoked from within a running pass, after a push
\* made during that pass, neither replaces the open transaction nor applies
\* operations.
C33_NoPassWithinAPass ==
  [][gLog'.last.op = "flushWithin" =>
       /\ graph'.transactionOpen = graph.transactionOpen
       /\ graph'.transaction = graph.transaction
       /\ graph'.edges = graph.edges
       /\ graph'.nodes = graph.nodes]_vars

(***************************************************************************)
(* Claims about the notifications of hasMany edges                         *)
(***************************************************************************)

\* the step is a whole Graph.remove(X) that was listened to
RemoveHeard ==
  /\ gLog'.last.op = "remove"
  /\ gLog'.last.before.nodes # {}
  /\ graph.removing = Null

\* the step is a Graph.unload that was listened to, made while no
\* Graph.remove is under way
UnloadHeard == gLog'.last.op = "unload" /\ ~gRun.inRemove

\* C34: while Graph.remove(X) is executing no hasMany change notification is
\* delivered for X, while the notifications for the other identifiers the
\* removal affects are still delivered; outside a removal each
\* notifyHasManyChange call delivers exactly one notification, which carries
\* the edge's identifier and field.
C34_NotificationsButForTheRemoved ==
  [][ /\ RemoveHeard =>
           graph'.heard = SelectSeq(graph'.asked, LAMBDA k : k[1] # gLog'.last.id)
      /\ UnloadHeard => graph'.heard = graph'.asked ]_vars

(***************************************************************************)
(* Claims about one hasMany edge                                           *)
(***************************************************************************)

\* the hasMany edges the graph holds
HasManyEdges == {k \in EdgeKeys : isHasMany(k[2]) /\ graph.edges[k].exists}

\* the state arrays of every hasMany edge hold members only
StatesHoldMembers ==
  \A k \in HasManyEdges :
    /\ Range(graph.edges[k].currentState) \subseteq graph.edges[k].members
    /\ Range(graph.edges[k].canonicalState) \subseteq graph.edges[k].canonicalMembers

\* a sequence without x, the others in the order they had
Without(q, x) == SelectSeq(q, LAMBDA y : y # x)

\* C35: for every hasMany edge, after any sequence of clear,
\* removeCompletelyFromOwn, inverseDidDematerialize, unload and deleteRecord,
\* every identifier in currentState is in members and every identifier in
\* canonicalState is in canonicalMembers; removeCompletelyFromOwn(X) leaves X
\* in none of currentState, canonicalState, members and canonicalMembers, and
\* keeps the relative order of the other identifiers.
C35_StatesHoldMembersOnly ==
  /\ []StatesHoldMembers
  /\ [][gLog'.last.op = "removeCompletelyFromOwn" =>
          LET x == gLog'.last.value[1]
              e0 == graph.edges[TheEdge]
              e1 == graph'.edges[TheEdge]
          IN /\ e1.currentState = Without(e0.currentState, x)
             /\ e1.canonicalState = Without(e0.canonicalState, x)
             /\ e1.members = e0.members \ {x}
             /\ e1.canonicalMembers = e0.canonicalMembers \ {x}
             /\ x \notin Range(e1.currentState) \cup Range(e1.canonicalState)]_vars

\* C35 witness: removeCompletelyFromOwn has taken the middle one of three
\* comments out of both state arrays, which had them in different orders
C35_Witness ==
  /\ gLog.last.op = "removeCompletelyFromOwn"
  /\ gLog.last.value = <<"c2">>
  /\ gLog.last.before.edges[TheEdge].currentState = <<"c1", "c2", "c3">>
  /\ gLog.last.before.edges[TheEdge].canonicalState = <<"c3", "c2", "c1">>
  /\ graph.edges[TheEdge].currentState = <<"c1", "c3">>
  /\ graph.edges[TheEdge].canonicalState = <<"c3", "c1">>

\* how many times the callback got x
TimesIn(q, x) == Cardinality({n \in 1..Len(q) : q[n] = x})

\* C36: forAllMembers calls its callback exactly once for each identifier in
\* the union of the current and the canonical members: those of currentState
\* first, in its order, then those that are in canonicalState only, in the
\* order of canonicalState.
C36_EachMemberOnceCurrentFirst ==
  gLog.last.op = "forAllMembers" =>
    LET e == graph.edges[TheEdge]
        got == gLog.last.value
    IN /\ \A x \in e.members \cup e.canonicalMembers : TimesIn(got, x) = 1
       /\ Range(got) = e.members \cup e.canonicalMembers
       /\ SubSeq(got, 1, Len(e.currentState)) = e.currentState
       /\ SubSeq(got, Len(e.currentState) + 1, Len(got)) =
            SelectSeq(e.canonicalState, LAMBDA x : x \notin e.members)

\* C36 witness: the callback got the two current comments and then the one
\* that is canonical only, although the canonical state has it first
C36_Witness ==
  /\ gLog.last.op = "forAllMembers"
  /\ graph.edges[TheEdge].currentState = <<"c2", "c1">>
  /\ graph.edges[TheEdge].canonicalState = <<"c3", "c1">>
  /\ gLog.last.value = <<"c2", "c1", "c3">>

(***************************************************************************)
(* Claims about the end of the requests                                    *)
(***************************************************************************)

\* the flush has run and the adapter has answered every call it got
FlushedAndAnswered ==
  /\ ~fm.isDestroyed
  /\ fm.epoch > 0
  /\ ~fm.flushing
  /\ fm.flushScheduled = 0
  /\ fm.pending = <<>>
  /\ \A c \in 1..Len(fm.adapterCalls) : fm.adapterCalls[c].answered

\* C37: every promise returned by scheduleFetch eventually settles once the
\* flush has run and the adapter has answered every call, including two
\* requests for the same identifier with different options in the same flush
\* of a coalescing adapter. Stated for the requests made before the flush
\* began: once the flush has run and every call is answered, none of their
\* promises is pending.
C37_EveryPromiseSettles ==
  FlushedAndAnswered =>
    \A n \in 1..Len(fmLog) :
      ~fmLog[n].during => fm.promises[fmLog[n].promise] \in {"resolved", "rejected"}

(***************************************************************************)
(* Claims about the start of a save                                        *)
(***************************************************************************)

\* C38: willCommit changes the value getAttr returns for no key: afterwards
\* the dirty bucket is empty and every previously dirty value is readable from
\* the in-flight bucket, and this also holds when willCommit is called while
\* an earlier save is still in flight.
C38_WillCommitKeepsEveryValue ==
  [][rdLast'.op = "willCommit" =>
       /\ \A k \in Keys : GetAttr(rd', k) = GetAttr(rd, k)
       /\ ObjKeys(rd'.attributes) = {}
       /\ \A k \in ObjKeys(rd.attributes) :
            Has(rd'.inFlight, k) /\ rd'.inFlight[k] = rd.attributes[k]]_vars

\* the request of promise p was handed to the adapter, alone or in a group
HandedToAdapter(p) ==
  \E c \in 1..Len(fm.adapterCalls) :
    \E n \in 1..Len(fm.adapterCalls[c].members) : fm.adapterCalls[c].members[n] = p

\* the request of promise p is in the pending table
InPendingTable(p) == \E n \in 1..Len(fm.pending) : fm.pending[n].promise = p

\* a flush is running or scheduled
FlushToCome == fm.flushing \/ fm.flushScheduled > 0

\* C39: a fetch scheduled while flushAllPendingFetches is running is not
\* lost: it is dispatched by that flush, or it stays in the pending table and
\* a later flush is scheduled; and whenever the pending table is non-empty
\* and the manager is not destroyed, a flush is scheduled (or running).
C39_FetchDuringFlushIsNotLost ==
  ~fm.isDestroyed =>
    /\ \A m \in 1..Len(fmLog) :
         (fmLog[m].during /\ ~fmLog[m].reused) =>
            \/ HandedToAdapter(fmLog[m].promise)
            \/ InPendingTable(fmLog[m].promise) /\ FlushToCome
    /\ fm.pending # <<>> => FlushToCome

(***************************************************************************)
(* Claims about the dematerialization of an inverse                        *)
(***************************************************************************)

\* the step is a Graph.unload of a comment that was listened to
UnloadOfComment ==
  /\ gLog'.last.op = "unload"
  /\ TypeOf(gLog'.last.id) = "comment"
  /\ has(graph, gLog'.last.id, "post")

\* the posts whose comments edge the unload of comment x calls
\* inverseDidDematerialize(x) on
ToldPosts(x) ==
  {p \in {graph.edges[<<x, "post">>].remoteState,
          graph.edges[<<x, "post">>].localState} \ {Null} :
     has(graph, p, "comments")}

\* what inverseDidDematerialize(x) has done to the state of the comments of p
DematerializedIn(p, x) ==
  LET e0 == graph.edges[<<p, "comments">>]
      e1 == graph'.edges[<<p, "comments">>]
  IN IF ~IsAsync(graph, "comments") \/ isNew(graph, x)
     THEN /\ e1.currentState = Without(e0.currentState, x)
          /\ e1.canonicalState = Without(e0.canonicalState, x)
          /\ e1.members = e0.members \ {x}
          /\ e1.canonicalMembers = e0.canonicalMembers \ {x}
          /\ x \notin Range(e1.currentState) \cup Range(e1.canonicalState)
     ELSE /\ e1.currentState = e0.currentState
          /\ e1.canonicalState = e0.canonicalState
          /\ e1.members = e0.members
          /\ e1.canonicalMembers = e0.canonicalMembers
          /\ e1.hasDematerializedInverse

\* C40 as stated: inverseDidDematerialize(X) on a hasMany edge that is sync,
\* or when X is a client-only new record, removes X from currentState,
\* canonicalState, members and canonicalMembers; on an async edge with X not
\* new it leaves all four unchanged and sets hasDematerializedInverse; in
\* both cases a hasMany change notification is delivered for the edge's
\* identifier.
C40_DematerializedInverseAlwaysNotifies ==
  [][UnloadOfComment =>
       \A p \in ToldPosts(gLog'.last.id) :
          /\ DematerializedIn(p, gLog'.last.id)
          /\ <<p, "comments">> \in Range(graph'.heard)]_vars

\* C40 amended: the state of the edge changes as stated, and a hasMany change
\* notification is delivered for the edge's identifier unless that identifier
\* is the one graph._removing names, in which case none is delivered.
C40_DematerializedInverseNotifiesUnlessRemoving ==
  [][UnloadOfComment =>
       \A p \in ToldPosts(gLog'.last.id) :
          /\ DematerializedIn(p, gLog'.last.id)
          /\ <<p, "comments">> \in Range(graph'.asked)
          /\ p # graph.removing => <<p, "comments">> \in Range(graph'.heard)
          /\ p = graph.removing => <<p, "comments">> \notin Range(graph'.heard)]_vars

\* the posts the last call, an unload of a comment, told about it
ToldPostsBefore ==
  {p \in {"p1", "p2"} :
     /\ gLog.last.before.edges[<<p, "comments">>].exists
     /\ p \in {gLog.last.before.edges[<<gLog.last.id, "post">>].remoteState,
               gLog.last.before.edges[<<gLog.last.id, "post">>].localState}}

\* C40 witness: c1, a saved comment of p1 on an async edge, was unloaded: the
\* comments of p1 still hold it, the edge has the flag, and the store was
\* notified for p1
C40_Witness ==
  /\ gLog.last.op = "unload"
  /\ gLog.last.id = "c1"
  /\ graph.async["comments"]
  /\ graph.removing = Null
  /\ "p1" \in ToldPostsBefore
  /\ graph.edges[<<"p1", "comments">>].hasDematerializedInverse
  /\ "c1" \in graph.edges[<<"p1", "comments">>].canonicalMembers
  /\ <<"p1", "comments">> \in Range(graph.heard)

====
